---------------------------- MODULE Spec2Model ----------------------------
(* A model of the playback state machine of audio_player_mcp/player.py:   *)
(* the process-wide AudioState, the tool handlers that read and write it,  *)
(* the library directory they scan and the media engine they command.      *)
(*                                                                         *)
(* Strings that the code takes apart are modelled by their parts: a path   *)
(* or filename is the sequence of its "/"-separated components, with "/"   *)
(* as the first component of an absolute path (pathlib's Path.parts), and  *)
(* str(path) is the sequence of the characters of the path.                *)
EXTENDS Integers, Sequences, FiniteSets, TLC

VARIABLES
    volume,         \* state.volume
    playing,        \* state.playing: NoTrack (None) or the filename as given
    paused,         \* state.paused
    playlist,       \* state.playlist: the last scan
    current_index,  \* state.current_index
    vlc_instance,   \* state.vlc_instance: NoHandle (None) or a handle
    media_player,   \* state.media_player: NoHandle (None) or a handle
    engine,         \* the media player behind media_player
    fs,             \* the audio files now present under AUDIO_DIR
    last,           \* the last tool call: its name, argument, outcome, engine commands
    tasks           \* the tool calls the host has dispatched and not yet answered

vars == <<volume, playing, paused, playlist, current_index,
          vlc_instance, media_player, engine, fs, last, tasks>>

-----------------------------------------------------------------------------
(* Bounds of the model *)

\* how many of the tracks of LibraryOrder the library directory may hold
MaxTracks == 2

\* how many tool calls the host may have dispatched and not yet answered
MaxCalls == 2

-----------------------------------------------------------------------------
(* Values *)

NoTrack == <<>>
NoHandle == 0
PreferredHandle == 1
FallbackHandle == 2
InitialVolume == 3
VolumeScale == 10
EndMargin == 1000

AUDIO_DIR == <<"/", "music">>

SUPPORTED_FORMATS == {".mp3", ".wav", ".ogg", ".flac", ".opus", ".m4a", ".aac"}

\* The tracks the library directory may hold, as paths relative to
\* AUDIO_DIR, in the order a scan meets them: directory iteration order,
\* depth first, here with the subfolder met before the files of the root.
\* Two basenames are there twice, in a folder and in the root.
LibraryOrder ==
    << <<"sub", "a.mp3">>, <<"a.mp3">>, <<"b.mp3">>, <<"sub2", "c.flac">>,
       <<"c.flac">>, <<"Hey_Jo.mp3">>, <<"x_ft_y.mp3">> >>

LibraryTracks == {LibraryOrder[i] : i \in 1..MaxTracks}

\* Files outside AUDIO_DIR: one in a sibling directory whose name starts
\* with the root's name, one elsewhere.
OutsideFiles == {<<"/", "music2", "x.mp3">>, <<"/", "etc", "x.mp3">>}

\* Every file present, as an absolute path, when the library holds `files`.
AllFiles(files) == {AUDIO_DIR \o t : t \in files} \cup OutsideFiles

-----------------------------------------------------------------------------
(* Paths *)

Chars(c) ==
    CASE c = "/" -> <<"/">>
      [] c = "music" -> <<"m", "u", "s", "i", "c">>
      [] c = "music2" -> <<"m", "u", "s", "i", "c", "2">>
      [] c = "etc" -> <<"e", "t", "c">>
      [] c = "sub" -> <<"s", "u", "b">>
      [] c = "sub2" -> <<"s", "u", "b", "2">>
      [] c = "a.mp3" -> <<"a", ".", "m", "p", "3">>
      [] c = "b.mp3" -> <<"b", ".", "m", "p", "3">>
      [] c = "x.mp3" -> <<"x", ".", "m", "p", "3">>
      [] c = "none.mp3" -> <<"n", "o", "n", "e", ".", "m", "p", "3">>
      [] c = "c.flac" -> <<"c", ".", "f", "l", "a", "c">>
      [] c = "Hey_Jo.mp3" -> <<"H", "e", "y", "_", "J", "o", ".", "m", "p", "3">>
      [] c = "x_ft_y.mp3" -> <<"x", "_", "f", "t", "_", "y", ".", "m", "p", "3">>
      [] c = ".." -> <<".", ".">>
      [] OTHER -> <<>>

\* Path(f).suffix, lower-cased
Suffix(c) ==
    CASE c \in {"a.mp3", "b.mp3", "x.mp3", "none.mp3", "Hey_Jo.mp3", "x_ft_y.mp3"} -> ".mp3"
      [] c = "c.flac" -> ".flac"
      [] c = "notes.txt" -> ".txt"
      [] OTHER -> ""

IsAbsolute(p) == Len(p) >= 1 /\ p[1] = "/"

\* "/" in filename or "\\" in filename or Path(filename).is_absolute()
LooksLikePath(filename) == Len(filename) > 1 \/ IsAbsolute(filename)

\* Path(f).name
Name(p) == IF Len(p) = 0 \/ p = <<"/">> THEN "" ELSE p[Len(p)]

Parent(p) == IF Len(p) > 1 THEN SubSeq(p, 1, Len(p) - 1) ELSE p

\* AUDIO_DIR / filename: an absolute right operand replaces the left one
Join(dir, filename) == IF IsAbsolute(filename) THEN filename ELSE dir \o filename

\* str(path), character by character
RECURSIVE Str(_)
Str(p) ==
    IF Len(p) <= 1 THEN <<"/">>
    ELSE IF Len(p) = 2 THEN <<"/">> \o Chars(p[2])
    ELSE Str(Parent(p)) \o <<"/">> \o Chars(p[Len(p)])

\* s.startswith(prefix)
StartsWith(s, prefix) ==
    Len(s) >= Len(prefix) /\ SubSeq(s, 1, Len(prefix)) = prefix

\* Path.resolve() of an absolute path on a file system without symbolic
\* links: ".." components are folded away
RECURSIVE ResolveFrom(_, _)
ResolveFrom(cur, rest) ==
    IF rest = <<>> THEN cur
    ELSE IF Head(rest) = ".." THEN ResolveFrom(Parent(cur), Tail(rest))
    ELSE ResolveFrom(Append(cur, Head(rest)), Tail(rest))

Resolve(p) == ResolveFrom(<<"/">>, Tail(p))

IsFile(p, files) == p \in AllFiles(files)

IsDir(p, files) ==
    \/ p = <<"/">>
    \/ p = AUDIO_DIR
    \/ \E f \in AllFiles(files) : Len(f) > Len(p) /\ SubSeq(f, 1, Len(p)) = p

\* Path.exists(): the path is walked component by component, and ".."
\* can only be taken from a directory that exists
RECURSIVE ExistsFrom(_, _, _)
ExistsFrom(cur, rest, files) ==
    IF rest = <<>> THEN IsFile(cur, files) \/ IsDir(cur, files)
    ELSE IF ~IsDir(cur, files) THEN FALSE
    ELSE IF Head(rest) = ".." THEN ExistsFrom(Parent(cur), Tail(rest), files)
    ELSE ExistsFrom(Append(cur, Head(rest)), Tail(rest), files)

Exists(p, files) == ExistsFrom(<<"/">>, Tail(p), files)

\* the containment test of play_audio
InAudioDir(file_path) == StartsWith(Str(Resolve(file_path)), Str(Resolve(AUDIO_DIR)))

\* what containment means: the resolved path is AUDIO_DIR or below it
Inside(p) ==
    LET r == Resolve(p) root == Resolve(AUDIO_DIR)
    IN  Len(r) >= Len(root) /\ SubSeq(r, 1, Len(root)) = root

-----------------------------------------------------------------------------
(* The library scanner *)

_get_audio_files(files) ==
    SelectSeq(LibraryOrder,
              LAMBDA t : t \in files /\ Suffix(Name(t)) \in SUPPORTED_FORMATS)

IndexOf(x, seq) ==
    IF \E i \in 1..Len(seq) : seq[i] = x
    THEN (CHOOSE i \in 1..Len(seq) :
            seq[i] = x /\ \A j \in 1..(i - 1) : seq[j] # x) - 1
    ELSE -1

-----------------------------------------------------------------------------
(* The media engine: the player object behind state.media_player. Its     *)
(* stop, pause, play, set_time and audio_set_volume return without        *)
(* raising (they are calls into libvlc); building it and loading media    *)
(* may fail, and what play leads to is the engine's choice.               *)

EngineStates ==
    {"NothingSpecial", "Opening", "Playing", "Paused", "Stopped", "Ended", "Error"}

\* what the engine may report half a second after play() on new media
PlayOutcomes == {"Playing", "Opening", "Error"}

\* how one attempt to build the engine may end: both objects built, no
\* instance (vlc.Instance gives None and the next line raises), or an
\* instance whose media_player_new raises
InitOutcomes == {"ok", "no_instance", "no_player"}

Cmd(name, path, n) == [cmd |-> name, path |-> path, n |-> n]

NewEngine(vol) == [state |-> "NothingSpecial", volume |-> vol]

\* media_player.is_playing()
is_playing(e) == e.state = "Playing"

\* media_player.stop()
EngineStop(e) == [e EXCEPT !.state = "Stopped"]

\* media_player.pause(): a toggle
EnginePause(e) ==
    [e EXCEPT !.state = IF @ = "Playing" THEN "Paused"
                        ELSE IF @ = "Paused" THEN "Playing" ELSE @]

\* media_player.play(): a paused player goes on, anything else opens its
\* media, with the outcome the engine reports
EnginePlay(e, outcome) ==
    [e EXCEPT !.state = IF @ = "Paused" THEN "Playing" ELSE outcome]

-----------------------------------------------------------------------------
(* AudioState *)

\* the fields of AudioState, and the engine, as one value
State ==
    [volume |-> volume, playing |-> playing, paused |-> paused,
     playlist |-> playlist, current_index |-> current_index,
     vlc_instance |-> vlc_instance, media_player |-> media_player,
     engine |-> engine]

\* what a handler leaves: the state, what it returned or raised, and the
\* commands it gave the engine
Out(st, status, cmds) == [st |-> st, status |-> status, cmds |-> cmds]

\* a try block of init_vlc that leaves the volume of the new player alone
InitAttempt_no_volume(st, handle, outcome) ==
    CASE outcome = "no_instance" -> [st EXCEPT !.vlc_instance = NoHandle]
      [] outcome = "no_player" -> [st EXCEPT !.vlc_instance = handle]
      [] OTHER -> [st EXCEPT !.vlc_instance = handle,
                             !.media_player = handle]

\* one try block of init_vlc
InitAttempt(st, handle, outcome) ==
    CASE outcome = "no_instance" -> [st EXCEPT !.vlc_instance = NoHandle]
      [] outcome = "no_player" -> [st EXCEPT !.vlc_instance = handle]
      [] OTHER -> [st EXCEPT !.vlc_instance = handle,
                             !.media_player = handle,
                             !.engine = NewEngine(st.volume * VolumeScale)]

\* init_vlc without the test of vlc_instance: the engine is built anew
init_vlc_again(st, a1, a2) ==
    IF a1 = "ok"
    THEN [st |-> InitAttempt(st, PreferredHandle, a1), raised |-> FALSE]
    ELSE [st |-> InitAttempt(InitAttempt(st, PreferredHandle, a1),
                             FallbackHandle, a2),
          raised |-> a2 # "ok"]

init_vlc(st, a1, a2) ==
    IF st.vlc_instance # NoHandle THEN [st |-> st, raised |-> FALSE]
    ELSE IF a1 = "ok"
    THEN [st |-> InitAttempt(st, PreferredHandle, a1), raised |-> FALSE]
    ELSE [st |-> InitAttempt(InitAttempt(st, PreferredHandle, a1),
                             FallbackHandle, a2),
          raised |-> a2 # "ok"]

_update_playlist(st, files) ==
    LET scan == _get_audio_files(files)
    IN  [st EXCEPT !.playlist = scan,
                   !.current_index =
                       IF st.playing # NoTrack /\ IndexOf(st.playing, scan) >= 0
                       THEN IndexOf(st.playing, scan) ELSE -1]

\* resolve_filename that takes the last of the files of that name
resolve_filename_last(filename, files) ==
    IF LooksLikePath(filename) THEN Join(AUDIO_DIR, filename)
    ELSE
    LET all_files      == _get_audio_files(files)
        matching_files == SelectSeq(all_files, LAMBDA f : Name(f) = filename[1])
    IN  IF matching_files = <<>> THEN NoTrack
        ELSE Join(AUDIO_DIR, matching_files[Len(matching_files)])

\* the first lines of play_audio: the path a filename stands for, or
\* NoTrack when a bare filename names no scanned file
resolve_filename(filename, files) ==
    IF LooksLikePath(filename) THEN Join(AUDIO_DIR, filename)
    ELSE
    LET all_files      == _get_audio_files(files)
        matching_files == SelectSeq(all_files, LAMBDA f : Name(f) = filename[1])
    IN  IF matching_files = <<>> THEN NoTrack
        ELSE Join(AUDIO_DIR, matching_files[1])

\* update_state that forgets to clear the pause flag
update_state_keeps_paused(st, filename, files) ==
    _update_playlist([st EXCEPT !.playing = filename], files)

\* the end of play_audio, once the engine plays
update_state(st, filename, files) ==
    _update_playlist([st EXCEPT !.playing = filename, !.paused = FALSE], files)

\* play_audio that builds the engine before it looks at the file
play_audio_start_init_first(st, filename, files, a1, a2, load_ok) ==
    LET i == init_vlc(st, a1, a2) IN
    IF i.raised THEN Out(i.st, "InitFailed", <<>>)
    ELSE
    LET file_path == resolve_filename(filename, files) IN
    IF file_path = NoTrack THEN Out(i.st, "NotFound", <<>>)
    ELSE IF ~Exists(file_path, files) THEN Out(i.st, "NotFound", <<>>)
    ELSE IF ~InAudioDir(file_path) THEN Out(i.st, "PathEscape", <<>>)
    ELSE
    LET stop_first == i.st.playing # NoTrack /\ is_playing(i.st.engine)
        c1 == IF stop_first THEN <<Cmd("stop", NoTrack, 0)>> ELSE <<>>
        s1 == IF stop_first
              THEN [i.st EXCEPT !.engine = EngineStop(@)] ELSE i.st
    IN
    IF s1.media_player = NoHandle \/ ~load_ok THEN Out(s1, "LoadFailed", c1)
    ELSE
    LET vol == s1.volume * VolumeScale
        c2 == c1 \o <<Cmd("load", file_path, 0), Cmd("set_volume", NoTrack, vol),
                      Cmd("play", NoTrack, 0)>>
    IN  Out([s1 EXCEPT !.engine = [state |-> "Opening", volume |-> vol]],
            "started", c2)

\* the first part of play_audio(filename), up to media_player.play():
\* "started" once the engine has been told to play, and is opening the
\* media. files: the library while the name is resolved and validated;
\* a1, a2, load_ok: what the engine does.
play_audio_start(st, filename, files, a1, a2, load_ok) ==
    LET file_path == resolve_filename(filename, files) IN
    IF file_path = NoTrack THEN Out(st, "NotFound", <<>>)
    ELSE IF ~Exists(file_path, files) THEN Out(st, "NotFound", <<>>)
    ELSE IF ~InAudioDir(file_path) THEN Out(st, "PathEscape", <<>>)
    ELSE
    LET i == init_vlc(st, a1, a2) IN
    IF i.raised THEN Out(i.st, "InitFailed", <<>>)
    ELSE
    LET stop_first == i.st.playing # NoTrack /\ is_playing(i.st.engine)
        c1 == IF stop_first THEN <<Cmd("stop", NoTrack, 0)>> ELSE <<>>
        s1 == IF stop_first
              THEN [i.st EXCEPT !.engine = EngineStop(@)] ELSE i.st
    IN
    IF s1.media_player = NoHandle \/ ~load_ok THEN Out(s1, "LoadFailed", c1)
    ELSE
    LET vol == s1.volume * VolumeScale
        c2 == c1 \o <<Cmd("load", file_path, 0), Cmd("set_volume", NoTrack, vol),
                      Cmd("play", NoTrack, 0)>>
    IN  Out([s1 EXCEPT !.engine = [state |-> "Opening", volume |-> vol]],
            "started", c2)

\* the second part of play_audio: the wait of half a second, in which
\* the engine goes from opening the media to `outcome`, the test of what
\* the engine reports, and the update of state. files2: the library when
\* the playlist is refreshed; cmds: the commands of the first part.
play_audio_finish(st, filename, files2, cmds, outcome) ==
    LET s2 == [st EXCEPT !.engine.state = IF @ = "Opening" THEN outcome ELSE @] IN
    IF ~is_playing(s2.engine) /\ s2.engine.state \notin {"Playing", "Opening"}
    THEN Out(s2, "PlaybackFailed", cmds)
    ELSE Out(update_state(s2, filename, files2), "playing", cmds)

play_audio(st, filename, files, files2, a1, a2, load_ok, outcome) ==
    LET r == play_audio_start(st, filename, files, a1, a2, load_ok) IN
    IF r.status # "started" THEN r
    ELSE play_audio_finish(r.st, filename, files2, r.cmds, outcome)

-----------------------------------------------------------------------------
(* The other handlers *)

\* stop_playback that forgets to clear the pause flag
stop_playback_keeps_paused(st) ==
    IF st.media_player = NoHandle THEN Out(st, "not_initialized", <<>>)
    ELSE Out([st EXCEPT !.engine = EngineStop(@), !.playing = NoTrack],
             "stopped", <<Cmd("stop", NoTrack, 0)>>)

stop_playback(st) ==
    IF st.media_player = NoHandle THEN Out(st, "not_initialized", <<>>)
    ELSE Out([st EXCEPT !.engine = EngineStop(@),
                        !.playing = NoTrack,
                        !.paused = FALSE],
             "stopped", <<Cmd("stop", NoTrack, 0)>>)

\* pause_playback without the test of state.playing
pause_playback_any_track(st) ==
    IF st.media_player = NoHandle THEN Out(st, "not_initialized", <<>>)
    ELSE IF st.paused THEN Out(st, "already_paused", <<>>)
    ELSE Out([st EXCEPT !.engine = EnginePause(@), !.paused = TRUE],
             "paused", <<Cmd("pause", NoTrack, 0)>>)

\* pause_playback without the test of state.paused
pause_playback_again(st) ==
    IF st.media_player = NoHandle THEN Out(st, "not_initialized", <<>>)
    ELSE IF st.playing = NoTrack THEN Out(st, "not_playing", <<>>)
    ELSE Out([st EXCEPT !.engine = EnginePause(@), !.paused = TRUE],
             "paused", <<Cmd("pause", NoTrack, 0)>>)

pause_playback(st) ==
    IF st.media_player = NoHandle THEN Out(st, "not_initialized", <<>>)
    ELSE IF st.playing = NoTrack THEN Out(st, "not_playing", <<>>)
    ELSE IF st.paused THEN Out(st, "already_paused", <<>>)
    ELSE Out([st EXCEPT !.engine = EnginePause(@), !.paused = TRUE],
             "paused", <<Cmd("pause", NoTrack, 0)>>)

\* resume_playback without the test of state.paused
resume_playback_unpaused(st, outcome) ==
    IF st.media_player = NoHandle THEN Out(st, "not_initialized", <<>>)
    ELSE IF st.playing = NoTrack THEN Out(st, "no_audio", <<>>)
    ELSE Out([st EXCEPT !.engine = EnginePlay(@, outcome), !.paused = FALSE],
             "resumed", <<Cmd("play", NoTrack, 0)>>)

resume_playback(st, outcome) ==
    IF st.media_player = NoHandle THEN Out(st, "not_initialized", <<>>)
    ELSE IF st.playing = NoTrack THEN Out(st, "no_audio", <<>>)
    ELSE IF ~st.paused THEN Out(st, "not_paused", <<>>)
    ELSE Out([st EXCEPT !.engine = EnginePlay(@, outcome), !.paused = FALSE],
             "resumed", <<Cmd("play", NoTrack, 0)>>)

\* next_song that builds the engine before it looks at the playlist
next_song_init_first(st, files, files2, a1, a2, load_ok, outcome) ==
    LET s1 == _update_playlist(init_vlc(st, a1, a2).st, files) IN
    IF s1.playlist = <<>> THEN Out(s1, "no_files", <<>>)
    ELSE
    LET next_index == IF s1.current_index = -1 THEN 0
                      ELSE (s1.current_index + 1) % Len(s1.playlist)
        next_filename == s1.playlist[next_index + 1]
        r == play_audio(s1, next_filename, files2, files2, a1, a2, load_ok, outcome)
    IN  IF r.status # "playing" THEN r
        ELSE Out([r.st EXCEPT !.current_index = next_index], "next_song", r.cmds)

next_song(st, files, files2, a1, a2, load_ok, outcome) ==
    LET s1 == _update_playlist(st, files) IN
    IF s1.playlist = <<>> THEN Out(s1, "no_files", <<>>)
    ELSE
    LET next_index == IF s1.current_index = -1 THEN 0
                      ELSE (s1.current_index + 1) % Len(s1.playlist)
        next_filename == s1.playlist[next_index + 1]
        r == play_audio(s1, next_filename, files2, files2, a1, a2, load_ok, outcome)
    IN  IF r.status # "playing" THEN r
        ELSE Out([r.st EXCEPT !.current_index = next_index], "next_song", r.cmds)

\* previous_song that stops at the first track instead of wrapping around
previous_song_no_wrap(st, files, files2, a1, a2, load_ok, outcome) ==
    LET s1 == _update_playlist(st, files) IN
    IF s1.playlist = <<>> THEN Out(s1, "no_files", <<>>)
    ELSE
    LET prev_index == IF s1.current_index <= 0 THEN 0 ELSE s1.current_index - 1
        prev_filename == s1.playlist[prev_index + 1]
        r == play_audio(s1, prev_filename, files2, files2, a1, a2, load_ok, outcome)
    IN  IF r.status # "playing" THEN r
        ELSE Out([r.st EXCEPT !.current_index = prev_index], "previous_song", r.cmds)

previous_song(st, files, files2, a1, a2, load_ok, outcome) ==
    LET s1 == _update_playlist(st, files) IN
    IF s1.playlist = <<>> THEN Out(s1, "no_files", <<>>)
    ELSE
    LET prev_index == IF s1.current_index = -1 THEN Len(s1.playlist) - 1
                      ELSE (s1.current_index - 1) % Len(s1.playlist)
        prev_filename == s1.playlist[prev_index + 1]
        r == play_audio(s1, prev_filename, files2, files2, a1, a2, load_ok, outcome)
    IN  IF r.status # "playing" THEN r
        ELSE Out([r.st EXCEPT !.current_index = prev_index], "previous_song", r.cmds)

\* skip_forward that tests state.playing before the engine handle
skip_forward_unchecked(st, seconds, current_time, length) ==
    IF st.playing = NoTrack THEN Out(st, "not_playing", <<>>)
    ELSE
    LET t == current_time + seconds * 1000
        new_time == IF length > 0 /\ t > length THEN length - EndMargin ELSE t
    IN  Out(st, "skip_forward", <<Cmd("set_time", NoTrack, new_time)>>)

skip_forward(st, seconds, current_time, length) ==
    IF st.media_player = NoHandle THEN Out(st, "not_initialized", <<>>)
    ELSE IF st.playing = NoTrack THEN Out(st, "not_playing", <<>>)
    ELSE
    LET t == current_time + seconds * 1000
        new_time == IF length > 0 /\ t > length THEN length - EndMargin ELSE t
    IN  Out(st, "skip_forward", <<Cmd("set_time", NoTrack, new_time)>>)

\* skip_backward without the test of state.playing
skip_backward_any_state(st, seconds, current_time) ==
    IF st.media_player = NoHandle THEN Out(st, "not_initialized", <<>>)
    ELSE
    LET t == current_time - seconds * 1000
        new_time == IF t < 0 THEN 0 ELSE t
    IN  Out(st, "skip_backward", <<Cmd("set_time", NoTrack, new_time)>>)

skip_backward(st, seconds, current_time) ==
    IF st.media_player = NoHandle THEN Out(st, "not_initialized", <<>>)
    ELSE IF st.playing = NoTrack THEN Out(st, "not_playing", <<>>)
    ELSE
    LET t == current_time - seconds * 1000
        new_time == IF t < 0 THEN 0 ELSE t
    IN  Out(st, "skip_backward", <<Cmd("set_time", NoTrack, new_time)>>)

\* seek_to_position that builds the engine if it is not there
seek_to_position_creating(st, position_seconds, length) ==
    IF st.media_player = NoHandle
    THEN Out(init_vlc(st, "ok", "ok").st, "not_initialized", <<>>)
    ELSE IF st.playing = NoTrack THEN Out(st, "not_playing", <<>>)
    ELSE
    LET ms == position_seconds * 1000
        capped == IF length > 0 /\ ms > length THEN length - EndMargin ELSE ms
        position_ms == IF capped < 0 THEN 0 ELSE capped
    IN  Out(st, "seeked", <<Cmd("set_time", NoTrack, position_ms)>>)

seek_to_position(st, position_seconds, length) ==
    IF st.media_player = NoHandle THEN Out(st, "not_initialized", <<>>)
    ELSE IF st.playing = NoTrack THEN Out(st, "not_playing", <<>>)
    ELSE
    LET ms == position_seconds * 1000
        capped == IF length > 0 /\ ms > length THEN length - EndMargin ELSE ms
        position_ms == IF capped < 0 THEN 0 ELSE capped
    IN  Out(st, "seeked", <<Cmd("set_time", NoTrack, position_ms)>>)

get_playback_status(st, files) ==
    LET s1 == _update_playlist(st, files)
        playing_now == s1.media_player # NoHandle /\ is_playing(s1.engine)
    IN  Out(s1,
            IF playing_now /\ ~s1.paused THEN "playing"
            ELSE IF s1.paused THEN "paused" ELSE "stopped",
            <<>>)

\* set_volume that tests the upper end of the range only
set_volume_no_lower_bound(st, v) ==
    IF v > 10 THEN Out(st, "InvalidArgument", <<>>)
    ELSE IF st.media_player # NoHandle
    THEN Out([st EXCEPT !.volume = v, !.engine.volume = v * VolumeScale],
             "volume_changed", <<Cmd("set_volume", NoTrack, v * VolumeScale)>>)
    ELSE Out([st EXCEPT !.volume = v], "volume_changed", <<>>)

set_volume(st, v) ==
    IF v < 0 \/ v > 10 THEN Out(st, "InvalidArgument", <<>>)
    ELSE IF st.media_player # NoHandle
    THEN Out([st EXCEPT !.volume = v, !.engine.volume = v * VolumeScale],
             "volume_changed", <<Cmd("set_volume", NoTrack, v * VolumeScale)>>)
    ELSE Out([st EXCEPT !.volume = v], "volume_changed", <<>>)

\* vlc_available: whether libvlc answers the version query; an exception
\* of init_vlc is recorded in the diagnosis, not raised
diagnose_audio_system(st, vlc_available, a1, a2) ==
    IF vlc_available THEN Out(init_vlc(st, a1, a2).st, "diagnosis", <<>>)
    ELSE Out(st, "diagnosis", <<>>)

-----------------------------------------------------------------------------
(* Text. A string is the sequence of its characters.                       *)

UpperCase ==
    <<"A", "B", "C", "D", "E", "F", "G", "H", "I", "J", "K", "L", "M",
      "N", "O", "P", "Q", "R", "S", "T", "U", "V", "W", "X", "Y", "Z">>

LowerCase ==
    <<"a", "b", "c", "d", "e", "f", "g", "h", "i", "j", "k", "l", "m",
      "n", "o", "p", "q", "r", "s", "t", "u", "v", "w", "x", "y", "z">>

Digits == <<"0", "1", "2", "3", "4", "5", "6", "7", "8", "9">>

\* the characters of \w, in the order of their codes
WordChars == Digits \o UpperCase \o <<"_">> \o LowerCase

\* ord(ch), as far as the order of two word characters goes
CharCodes ==
    [ch \in {WordChars[k] : k \in 1..Len(WordChars)} |->
        CHOOSE k \in 1..Len(WordChars) : WordChars[k] = ch]

IsWordChar(ch) == ch \in DOMAIN CharCodes

CharCode(ch) == CharCodes[ch]

LowerChars ==
    [ch \in {UpperCase[k] : k \in 1..26} |->
        LowerCase[CHOOSE k \in 1..26 : UpperCase[k] = ch]]

LowerChar(ch) == IF ch \in DOMAIN LowerChars THEN LowerChars[ch] ELSE ch

\* s.lower()
RECURSIVE ToLower(_)
ToLower(s) == IF s = <<>> THEN <<>> ELSE <<LowerChar(Head(s))>> \o ToLower(Tail(s))

RECURSIVE LStrip(_)
LStrip(s) == IF s # <<>> /\ Head(s) = " " THEN LStrip(Tail(s)) ELSE s

RECURSIVE RStrip(_)
RStrip(s) ==
    IF s # <<>> /\ s[Len(s)] = " " THEN RStrip(SubSeq(s, 1, Len(s) - 1)) ELSE s

\* s.strip()
Strip(s) == RStrip(LStrip(s))

\* every character of s that is in `chars`, replaced by `by`
RECURSIVE ReplaceChars(_, _, _)
ReplaceChars(s, chars, by) ==
    IF s = <<>> THEN <<>>
    ELSE <<IF Head(s) \in chars THEN by ELSE Head(s)>> \o ReplaceChars(Tail(s), chars, by)

\* q in s
Contains(s, q) ==
    \E i \in 0..(Len(s) - Len(q)) : SubSeq(s, i + 1, i + Len(q)) = q

\* seq[:n] of Python: a negative n counts from the end
PySlice(seq, n) ==
    IF n >= 0 THEN SubSeq(seq, 1, IF n < Len(seq) THEN n ELSE Len(seq))
    ELSE SubSeq(seq, 1, IF Len(seq) + n > 0 THEN Len(seq) + n ELSE 0)

\* \b of a regular expression between text[k] and text[k + 1]
BoundaryAt(text, k) ==
    (k >= 1 /\ IsWordChar(text[k])) # (k < Len(text) /\ IsWordChar(text[k + 1]))

\* \bword\b matches text at position i
MatchesAt(text, i, word) ==
    /\ i + Len(word) - 1 <= Len(text)
    /\ SubSeq(text, i, i + Len(word) - 1) = word
    /\ BoundaryAt(text, i - 1)
    /\ BoundaryAt(text, i + Len(word) - 1)

\* re.sub(r'\bword\b', repl, text), from position i on
RECURSIVE SubWordFrom(_, _, _, _)
SubWordFrom(text, i, word, repl) ==
    IF i > Len(text) THEN <<>>
    ELSE IF MatchesAt(text, i, word)
    THEN repl \o SubWordFrom(text, i + Len(word), word, repl)
    ELSE <<text[i]>> \o SubWordFrom(text, i + 1, word, repl)

\* Path(f).stem of a file name: the name up to its last dot
Stem(name) ==
    LET dots == {k \in 2..Len(name) : name[k] = "."} IN
    IF dots = {} THEN name
    ELSE SubSeq(name, 1, (CHOOSE k \in dots : \A d \in dots : d <= k) - 1)

-----------------------------------------------------------------------------
(* The music-term normalizer *)

\* replacements of which one abbreviates
Replacements_abbreviating ==
    << << <<"f", "e", "a", "t">>, <<"f", "e", "a", "t", "u", "r", "i", "n", "g">> >>,
       << <<"f", "t">>, <<"f", "e", "a", "t">> >> >>

\* the replacements of _normalize_music_terms, in the order of the dict
Replacements ==
    << << <<"f", "e", "a", "t">>, <<"f", "e", "a", "t", "u", "r", "i", "n", "g">> >>,
       << <<"f", "t">>, <<"f", "e", "a", "t", "u", "r", "i", "n", "g">> >>,
       << <<"w", "/">>, <<"w", "i", "t", "h">> >>,
       << <<"v", "s">>, <<"v", "e", "r", "s", "u", "s">> >>,
       << <<"f", "e", "a", "t", "u", "r", "i", "n", "g">>,
          <<"f", "e", "a", "t", "u", "r", "i", "n", "g">> >>,
       << <<"r", "e", "m", "i", "x">>, <<"r", "e", "m", "i", "x">> >>,
       << <<"e", "d", "i", "t">>, <<"e", "d", "i", "t">> >>,
       << <<"m", "i", "x">>, <<"m", "i", "x">> >>,
       << <<"o", "r", "i", "g", "i", "n", "a", "l">>,
          <<"o", "r", "i", "g", "i", "n", "a", "l">> >>,
       << <<"e", "x", "t", "e", "n", "d", "e", "d">>,
          <<"e", "x", "t", "e", "n", "d", "e", "d">> >>,
       << <<"o", "f", "f", "i", "c", "i", "a", "l">>,
          <<"o", "f", "f", "i", "c", "i", "a", "l">> >> >>

RECURSIVE ApplyReplacements(_, _)
ApplyReplacements(text, k) ==
    IF k > Len(Replacements) THEN text
    ELSE ApplyReplacements(
             SubWordFrom(text, 1, Replacements[k][1], Replacements[k][2]), k + 1)

_normalize_music_terms(text) == ApplyReplacements(ToLower(text), 1)

_preprocess_music_query(query) == Strip(_normalize_music_terms(query))

-----------------------------------------------------------------------------
(* fuzz.token_sort_ratio of fuzzywuzzy, with the SequenceMatcher of difflib *)

\* utils.full_process: what is not a letter, digit or "_" becomes a space,
\* then lower case, then strip
RECURSIVE NonWordToSpace(_)
NonWordToSpace(s) ==
    IF s = <<>> THEN <<>>
    ELSE <<IF IsWordChar(Head(s)) THEN Head(s) ELSE " ">> \o NonWordToSpace(Tail(s))

full_process(s) == Strip(ToLower(NonWordToSpace(s)))

\* s.split(): the words between runs of spaces
RECURSIVE SplitFrom(_, _)
SplitFrom(s, word) ==
    IF s = <<>> THEN (IF word = <<>> THEN <<>> ELSE <<word>>)
    ELSE IF Head(s) = " "
    THEN (IF word = <<>> THEN <<>> ELSE <<word>>) \o SplitFrom(Tail(s), <<>>)
    ELSE SplitFrom(Tail(s), Append(word, Head(s)))

Split(s) == SplitFrom(s, <<>>)

\* a < b for two words
RECURSIVE WordLess(_, _)
WordLess(a, b) ==
    IF b = <<>> THEN FALSE
    ELSE IF a = <<>> THEN TRUE
    ELSE IF Head(a) # Head(b) THEN CharCode(Head(a)) < CharCode(Head(b))
    ELSE WordLess(Tail(a), Tail(b))

\* w put into the sorted sequence of words
RECURSIVE InsertWord(_, _)
InsertWord(w, sorted) ==
    IF sorted = <<>> THEN <<w>>
    ELSE IF WordLess(w, Head(sorted)) THEN <<w>> \o sorted
    ELSE <<Head(sorted)>> \o InsertWord(w, Tail(sorted))

RECURSIVE SortWords(_)
SortWords(words) ==
    IF words = <<>> THEN <<>> ELSE InsertWord(Head(words), SortWords(Tail(words)))

\* " ".join(words)
RECURSIVE JoinWords(_)
JoinWords(words) ==
    IF words = <<>> THEN <<>>
    ELSE IF Len(words) = 1 THEN words[1]
    ELSE words[1] \o <<" ">> \o JoinWords(Tail(words))

_process_and_sort(s) == Strip(JoinWords(SortWords(Split(full_process(s)))))

\* how far a from i and b from j go on alike, within a[..ahi] and b[..bhi]
RECURSIVE CommonLen(_, _, _, _, _, _)
CommonLen(a, b, i, j, ahi, bhi) ==
    IF i > ahi \/ j > bhi \/ a[i] # b[j] THEN 0
    ELSE 1 + CommonLen(a, b, i + 1, j + 1, ahi, bhi)

\* SequenceMatcher.find_longest_match on a[alo..ahi] and b[blo..bhi]: the
\* longest common block, of several the one that starts first in a, and of
\* those the one that starts first in b
find_longest_match(a, b, alo, ahi, blo, bhi) ==
    LET size == [i \in alo..ahi |-> [j \in blo..bhi |-> CommonLen(a, b, i, j, ahi, bhi)]]
        k == CHOOSE n \in 0..(ahi - alo + 1) :
                 /\ \A i \in alo..ahi : \A j \in blo..bhi : size[i][j] <= n
                 /\ n = 0 \/ \E i \in alo..ahi : \E j \in blo..bhi : size[i][j] = n
        besti == CHOOSE i \in alo..ahi :
                     /\ \E j \in blo..bhi : size[i][j] = k
                     /\ \A i2 \in alo..(i - 1) : \A j \in blo..bhi : size[i2][j] < k
        bestj == CHOOSE j \in blo..bhi :
                     /\ size[besti][j] = k
                     /\ \A j2 \in blo..(j - 1) : size[besti][j2] < k
    IN  IF k = 0 THEN [i |-> alo, j |-> blo, k |-> 0]
        ELSE [i |-> besti, j |-> bestj, k |-> k]

\* the sum of the sizes of SequenceMatcher.get_matching_blocks
RECURSIVE MatchingChars(_, _, _, _, _, _)
\* the block m, and the blocks to the left and to the right of it
MatchingAround(a, b, alo, ahi, blo, bhi, m) ==
    IF m.k = 0 THEN 0
    ELSE m.k + MatchingChars(a, b, alo, m.i - 1, blo, m.j - 1)
             + MatchingChars(a, b, m.i + m.k, ahi, m.j + m.k, bhi)

MatchingChars(a, b, alo, ahi, blo, bhi) ==
    IF alo > ahi \/ blo > bhi THEN 0
    ELSE MatchingAround(a, b, alo, ahi, blo, bhi,
                        find_longest_match(a, b, alo, ahi, blo, bhi))

\* int(round(100 * 2.0 * matches / total)): a half goes to the even number
RoundedPercent(matches, total) ==
    LET q == (200 * matches) \div total
        r == (200 * matches) % total
    IN  IF 2 * r < total THEN q
        ELSE IF 2 * r > total THEN q + 1
        ELSE IF q % 2 = 0 THEN q ELSE q + 1

\* fuzz.ratio: 100 for equal strings, 0 if one is empty
ratio(s1, s2) ==
    IF s1 = s2 THEN 100
    ELSE IF s1 = <<>> \/ s2 = <<>> THEN 0
    ELSE RoundedPercent(MatchingChars(s1, s2, 1, Len(s1), 1, Len(s2)),
                        Len(s1) + Len(s2))

token_sort_ratio(s1, s2) == ratio(_process_and_sort(s1), _process_and_sort(s2))

\* j - i for every block (i, j, k) of SequenceMatcher.get_matching_blocks
RECURSIVE BlockOffsets(_, _, _, _, _, _)
OffsetsAround(a, b, alo, ahi, blo, bhi, m) ==
    IF m.k = 0 THEN {}
    ELSE {m.j - m.i} \cup BlockOffsets(a, b, alo, m.i - 1, blo, m.j - 1)
                    \cup BlockOffsets(a, b, m.i + m.k, ahi, m.j + m.k, bhi)

BlockOffsets(a, b, alo, ahi, blo, bhi) ==
    IF alo > ahi \/ blo > bhi THEN {}
    ELSE OffsetsAround(a, b, alo, ahi, blo, bhi,
                       find_longest_match(a, b, alo, ahi, blo, bhi))

\* longer[start:start + count]
Window(longer, start, count) ==
    SubSeq(longer, start + 1,
           IF start + count < Len(longer) THEN start + count ELSE Len(longer))

\* 100 * SequenceMatcher(None, shorter, part).ratio(), rounded; the ratio
\* of two empty strings is 1.0
WindowRatio(shorter, part) ==
    IF Len(shorter) + Len(part) = 0 THEN 100
    ELSE RoundedPercent(MatchingChars(shorter, part, 1, Len(shorter), 1, Len(part)),
                        Len(shorter) + Len(part))

\* the best ratio of the shorter string against the windows of the longer
\* one that the matching blocks point at; the last block is the empty one
\* at the end of both strings
BestWindow(shorter, longer) ==
    CHOOSE r \in 0..100 :
        \E starts \in {{IF d > 0 THEN d ELSE 0 :
                          d \in BlockOffsets(shorter, longer, 1, Len(shorter),
                                             1, Len(longer))
                                \cup {Len(longer) - Len(shorter)}}} :
            /\ \E d \in starts :
                   WindowRatio(shorter, Window(longer, d, Len(shorter))) = r
            /\ \A d \in starts :
                   WindowRatio(shorter, Window(longer, d, Len(shorter))) <= r

\* fuzz.partial_ratio: 100 for equal strings, 0 if one is empty
partial_ratio(s1, s2) ==
    IF s1 = s2 THEN 100
    ELSE IF s1 = <<>> \/ s2 = <<>> THEN 0
    ELSE IF Len(s1) <= Len(s2) THEN BestWindow(s1, s2)
    ELSE BestWindow(s2, s1)

-----------------------------------------------------------------------------
(* The search *)

\* the tags of the files of the library, as the tag reader gives them
Tags(file_path) ==
    CASE file_path = <<"b.mp3">> ->
           [title |-> <<"G", "o">>, artist |-> <<"A", "l">>]
      [] file_path = <<"c.flac">> ->
           [title |-> <<"H", "e", "y", " ">>, artist |-> <<>>]
      [] OTHER -> [title |-> <<>>, artist |-> <<>>]

_extract_title_and_artist(file_path) ==
    [title |-> Strip(Tags(file_path).title), artist |-> Strip(Tags(file_path).artist)]

_create_search_data_for_file(file_path) ==
    LET tags == _extract_title_and_artist(file_path)
        title == tags.title
        artist == tags.artist
        filename_stem == Stem(Chars(Name(file_path)))
        metadata_texts ==
            IF title # <<>> /\ artist # <<>>
            THEN <<artist \o <<" ", "-", " ">> \o title, title \o <<" ">> \o artist,
                   title, artist>>
            ELSE IF title # <<>> THEN <<title>>
            ELSE IF artist # <<>> THEN <<artist>>
            ELSE <<>>
        clean_filename == ReplaceChars(filename_stem, {"_", "-", "."}, " ")
        normalized_filename == _normalize_music_terms(clean_filename)
    IN  [file_path |-> file_path, title |-> title, artist |-> artist,
         filename |-> filename_stem,
         search_texts |->
             metadata_texts \o <<normalized_filename, clean_filename, filename_stem>>]

\* A score is a float: base * weight, with weight 1.0, 0.9 or 0.7. It is
\* kept as the exact product in tenths and the side on which the float
\* lies of it (90 * 0.7 is 62.99999999999999, 70 * 0.9 is 63.0).
RoundedUp == {13, 21, 26, 31, 37, 42, 47, 52, 57, 62, 67, 74, 79, 84, 89, 94, 99}

RoundedDown ==
    {3, 6, 7, 11, 12, 14, 17, 19, 22, 23, 24, 28, 29, 33, 34, 38, 39, 43, 44, 45,
     46, 48, 51, 53, 56, 58, 61, 63, 66, 68, 71, 73, 76, 78, 81, 83, 85, 86, 88,
     90, 91, 92, 96, 97}

\* the base score, whatever the weight
FloatProduct_unweighted(base, weight) == [tenths |-> base * 10, err |-> 0]

\* base * weight, the weight in tenths
FloatProduct(base, weight) ==
    [tenths |-> base * weight,
     err |-> IF weight = 9 /\ base \in RoundedUp THEN 1
             ELSE IF weight = 7 /\ base \in RoundedDown THEN -1
             ELSE 0]

ZeroScore == [tenths |-> 0, err |-> 0]

\* a > b for two scores
ScoreGreater(a, b) ==
    a.tenths > b.tenths \/ (a.tenths = b.tenths /\ a.err > b.err)

\* score >= n for a whole number n
ScoreAtLeast(score, n) ==
    score.tenths > n * 10 \/ (score.tenths = n * 10 /\ score.err >= 0)

\* the filename texts with the weight of the metadata texts
TextWeight_no_filename(data, i) ==
    IF i = 0 /\ data.title # <<>> /\ data.artist # <<>> THEN 10 ELSE 9

\* the weight, in tenths, and the kind of search text i of a file
TextWeight(data, i) ==
    IF i = 0 /\ data.title # <<>> /\ data.artist # <<>> THEN 10
    ELSE IF i <= 3 /\ (data.title # <<>> \/ data.artist # <<>>) THEN 9
    ELSE 7

TextKind(data, i) ==
    IF i = 0 /\ data.title # <<>> /\ data.artist # <<>> THEN "artist_title"
    ELSE IF i <= 3 /\ (data.title # <<>> \/ data.artist # <<>>) THEN "metadata"
    ELSE "filename"

\* f"{match_type}_fuzzy"
Fuzzy(kind) ==
    CASE kind = "artist_title" -> "artist_title_fuzzy"
      [] kind = "metadata" -> "metadata_fuzzy"
      [] OTHER -> "filename_fuzzy"

\* the score of one search text: exact match, phrase match, fuzzy match
TextScore(query_lower, normalized_query, search_text, search_text_lower, weight) ==
    FloatProduct(IF query_lower = search_text_lower THEN 100
                 ELSE IF Contains(search_text_lower, query_lower) THEN 95
                 ELSE token_sort_ratio(normalized_query, search_text),
                 weight)

\* max_score, best_match_text and match_type after a search text of the
\* kind `kind` with the score `score`
UpdateBest(best, score, search_text, kind) ==
    IF ScoreGreater(score, best.max_score)
    THEN [max_score |-> score,
          best_match_text |-> search_text,
          match_type |-> IF ScoreAtLeast(score, 95) THEN kind ELSE Fuzzy(kind)]
    ELSE [best EXCEPT !.match_type = kind]

\* the loop over the search texts of one file, from text i on. best: the
\* values of max_score, best_match_text and match_type so far
RECURSIVE ScoreTexts(_, _, _, _, _)
ScoreTexts(data, query_lower, normalized_query, i, best) ==
    IF i >= Len(data.search_texts) THEN best
    ELSE ScoreTexts(data, query_lower, normalized_query, i + 1,
                    UpdateBest(best,
                               TextScore(query_lower, normalized_query,
                                         data.search_texts[i + 1],
                                         ToLower(data.search_texts[i + 1]),
                                         TextWeight(data, i)),
                               data.search_texts[i + 1],
                               TextKind(data, i)))

\* the entry of scored_matches for a file, if its score reaches the threshold
Threshold(data, best) ==
    IF ScoreAtLeast(best.max_score, 30)
    THEN <<[file_path |-> data.file_path, score |-> best.max_score,
            match_text |-> best.best_match_text, match_type |-> best.match_type,
            title |-> data.title, artist |-> data.artist]>>
    ELSE <<>>

\* the scored match of one file
ScoredMatch(data, query_lower, normalized_query) ==
    Threshold(data,
              ScoreTexts(data, query_lower, normalized_query, 0,
                         [max_score |-> ZeroScore, best_match_text |-> <<>>,
                          match_type |-> ""]))

\* list.sort(key=score, reverse=True): stable, so a match goes behind the
\* matches of the same score that came before it
RECURSIVE InsertMatch(_, _)
\* a sort that puts a match before the matches of the same score
InsertMatch_first(m, sorted) ==
    IF sorted = <<>> THEN <<m>>
    ELSE IF ~ScoreGreater(Head(sorted).score, m.score) THEN <<m>> \o sorted
    ELSE <<Head(sorted)>> \o InsertMatch(m, Tail(sorted))

InsertMatch(m, sorted) ==
    IF sorted = <<>> THEN <<m>>
    ELSE IF ScoreGreater(m.score, Head(sorted).score) THEN <<m>> \o sorted
    ELSE <<Head(sorted)>> \o InsertMatch(m, Tail(sorted))

RECURSIVE SortMatches(_, _)
SortMatches(matches, sorted) ==
    IF matches = <<>> THEN sorted
    ELSE SortMatches(Tail(matches), InsertMatch(Head(matches), sorted))

RECURSIVE ScoreFiles(_, _, _)
ScoreFiles(files, query_lower, normalized_query) ==
    IF files = <<>> THEN <<>>
    ELSE ScoredMatch(_create_search_data_for_file(Head(files)),
                     query_lower, normalized_query)
             \o ScoreFiles(Tail(files), query_lower, normalized_query)

_enhanced_metadata_search(files, query, limit) ==
    IF Strip(query) = <<>> THEN <<>>
    ELSE PySlice(SortMatches(ScoreFiles(files, Strip(ToLower(query)),
                                        _preprocess_music_query(query)),
                             <<>>),
                 limit)

\* the display info of a result: the metadata there is, else the file name
DisplayInfo(result) ==
    IF result.title # <<>> /\ result.artist # <<>>
    THEN result.artist \o <<" ", "-", " ">> \o result.title
    ELSE IF result.title # <<>> THEN result.title
    ELSE IF result.artist # <<>> THEN result.artist
    ELSE Chars(Name(result.file_path))

\* a match as search_songs reports it: the score rounded to one decimal,
\* in tenths
RECURSIVE ReportMatches(_)
ReportMatches(results) ==
    IF results = <<>> THEN <<>>
    ELSE <<[file |-> Head(results).file_path,
            score |-> Head(results).score.tenths,
            match_type |-> Head(results).match_type,
            matched_text |-> Head(results).match_text,
            display_info |-> DisplayInfo(Head(results)),
            title |-> Head(results).title,
            artist |-> Head(results).artist]>> \o ReportMatches(Tail(results))

RECURSIVE AllMatches(_)
AllMatches(files) ==
    IF files = <<>> THEN <<>>
    ELSE <<[file |-> Head(files), score |-> 1000, match_type |-> "all"]>>
             \o AllMatches(Tail(files))

\* search_songs that hands out every file, whatever the limit
search_songs_unlimited(on_disk, query, limit) ==
    LET files == _get_audio_files(on_disk) IN
    IF files = <<>> THEN [status |-> "no_files", matches |-> <<>>, scored |-> 0]
    ELSE IF Strip(query) = <<>>
    THEN [status |-> "success", matches |-> AllMatches(files), scored |-> 0]
    ELSE [status |-> "success",
          matches |-> ReportMatches(_enhanced_metadata_search(files, query, limit)),
          scored |-> Len(files)]

\* search_songs(query, limit) on the library `on_disk`. scored: how many
\* files were given a score
search_songs(on_disk, query, limit) ==
    LET files == _get_audio_files(on_disk) IN
    IF files = <<>> THEN [status |-> "no_files", matches |-> <<>>, scored |-> 0]
    ELSE IF Strip(query) = <<>>
    THEN [status |-> "success", matches |-> AllMatches(PySlice(files, limit)),
          scored |-> 0]
    ELSE [status |-> "success",
          matches |-> ReportMatches(_enhanced_metadata_search(files, query, limit)),
          scored |-> Len(files)]

-----------------------------------------------------------------------------
(* Searching and playing *)

\* what search_and_play replies once play_audio has returned or raised
PlayedReply(play_result) ==
    Out(play_result.st,
        IF play_result.status = "playing" THEN "search_and_play_success"
        ELSE play_result.status,
        play_result.cmds)

\* search_and_play; search_result: what search_songs(query, limit=1) gave
search_and_play(st, search_result, files, a1, a2, load_ok, outcome) ==
    IF search_result.status # "success" \/ search_result.matches = <<>>
    THEN Out(st, "no_matches", <<>>)
    ELSE PlayedReply(play_audio(st, search_result.matches[1].file, files, files,
                                a1, a2, load_ok, outcome))

-----------------------------------------------------------------------------
(* A random song of an artist *)

\* match.get(key): nothing if the match has no such key
Get(match, key) == IF key \in DOMAIN match THEN match[key] ELSE <<>>

\* the match is taken for a song of the artist
IsArtistMatch(match, artist) ==
    \/ /\ Get(match, "artist") # <<>>
       /\ partial_ratio(ToLower(artist), ToLower(Get(match, "artist"))) >= 80
    \/ /\ Get(match, "display_info") # <<>>
       /\ partial_ratio(ToLower(artist), ToLower(Get(match, "display_info"))) >= 80
    \/ match.match_type = "metadata"

\* artist_matches if artist_matches else other_matches
Prefer(artist_matches, other_matches) ==
    IF artist_matches # <<>> THEN artist_matches ELSE other_matches

\* the songs random.choice picks from; none makes the reply "no_matches"
available_songs(search_result, artist) ==
    IF search_result.status # "success" \/ search_result.matches = <<>> THEN <<>>
    ELSE Prefer(SelectSeq(search_result.matches,
                          LAMBDA m : IsArtistMatch(m, artist)),
                SelectSeq(search_result.matches,
                          LAMBDA m : ~IsArtistMatch(m, artist)))

\* the result of play_audio, with selected_from and match_score added if
\* its status is "success"
WithArtistInfo(play_result, available, random_song) ==
    [st |-> play_result.st, status |-> play_result.status,
     cmds |-> play_result.cmds,
     value |-> IF play_result.status = "success"
               THEN <<Len(available), random_song.score>>
               ELSE <<>>]

\* the reply [st, status, cmds, value] of play_random_song_by_artist;
\* available: available_songs of the search for the artist, pick: the
\* choice of random.choice among them
play_random_song_by_artist(st, available, pick, a1, a2, load_ok, outcome, files) ==
    IF available = <<>>
    THEN [st |-> st, status |-> "no_matches", cmds |-> <<>>, value |-> <<>>]
    ELSE WithArtistInfo(play_audio(st, available[pick].file, files, files,
                                   a1, a2, load_ok, outcome),
                        available, available[pick])

-----------------------------------------------------------------------------
(* Genres *)

UpperChars ==
    [ch \in {LowerCase[k] : k \in 1..26} |->
        UpperCase[CHOOSE k \in 1..26 : LowerCase[k] = ch]]

UpperChar(ch) == IF ch \in DOMAIN UpperChars THEN UpperChars[ch] ELSE ch

IsCased(ch) == ch \in DOMAIN UpperChars \/ ch \in DOMAIN LowerChars

IsDigit(ch) == \E k \in 1..Len(Digits) : Digits[k] = ch

\* s.title(): every letter that follows a letter in lower case, every
\* other letter in upper case
RECURSIVE TitleFrom(_, _)
TitleFrom(s, after_letter) ==
    IF s = <<>> THEN <<>>
    ELSE <<IF after_letter THEN LowerChar(Head(s)) ELSE UpperChar(Head(s))>>
             \o TitleFrom(Tail(s), IsCased(Head(s)))

Title(s) == TitleFrom(s, FALSE)

\* how many digits s starts with
RECURSIVE LeadingDigits(_)
LeadingDigits(s) ==
    IF s # <<>> /\ IsDigit(Head(s)) THEN 1 + LeadingDigits(Tail(s)) ELSE 0

\* re.sub(r'^\(\d+\)', '', s)
StripGenreNumber(s) ==
    IF /\ s # <<>>
       /\ Head(s) = "("
       /\ LeadingDigits(Tail(s)) >= 1
       /\ Len(s) >= LeadingDigits(Tail(s)) + 2
       /\ s[LeadingDigits(Tail(s)) + 2] = ")"
    THEN SubSeq(s, LeadingDigits(Tail(s)) + 3, Len(s))
    ELSE s

\* the parentheses left around the genre
StripParentheses_kept(s) == s

\* genre[1:-1] if the genre starts with "(" and ends with ")"
StripParentheses(s) ==
    IF s # <<>> /\ Head(s) = "(" /\ s[Len(s)] = ")"
    THEN SubSeq(s, 2, Len(s) - 1)
    ELSE s

Unknown == <<"U", "n", "k", "n", "o", "w", "n">>

\* the genre with the parentheses gone: title-cased, or "Unknown"
TitleOrUnknown(s) == IF s # <<>> THEN Title(s) ELSE Unknown

\* the cleaning of a genre string read from the tags ("" if there is none)
CleanGenre(genre) ==
    IF genre # <<>>
    THEN TitleOrUnknown(StripParentheses(Strip(StripGenreNumber(Strip(genre)))))
    ELSE Unknown

\* the genre in the tags of the files of the library
GenreTag(file_path) ==
    CASE file_path = <<"sub", "a.mp3">> -> <<"(", "1", "3", ")", "P", "o", "p">>
      [] file_path = <<"a.mp3">> -> <<"(", "R", "o", "c", "k", ")">>
      [] file_path = <<"b.mp3">> -> <<>>
      [] file_path = <<"c.flac">> -> <<"(", "1", "3", ")">>
      [] file_path = <<"Hey_Jo.mp3">> -> <<"p", "o", "p", " ", "R", "O", "C", "K">>
      [] file_path = <<"x_ft_y.mp3">> -> <<"h", "i", "p", "-", "h", "o", "p">>
      [] OTHER -> <<>>

_extract_genre_from_file(file_path) == CleanGenre(GenreTag(file_path))

\* the loop of _search_by_genre over the scanned files. found: the
\* matching_files so far
RECURSIVE GenreLoop(_, _, _, _)
\* after a matching file: stop at the limit, or go on
AfterMatch(files, genre_query_lower, limit, found) ==
    IF Len(found) >= limit THEN found
    ELSE GenreLoop(Tail(files), genre_query_lower, limit, found)

GenreLoopStep(files, genre_query_lower, limit, found, file_genre) ==
    IF \/ ToLower(file_genre) = genre_query_lower
       \/ Contains(ToLower(file_genre), genre_query_lower)
    THEN AfterMatch(files, genre_query_lower, limit,
                    Append(found, [file |-> Head(files), genre |-> file_genre]))
    ELSE GenreLoop(Tail(files), genre_query_lower, limit, found)

GenreLoop(files, genre_query_lower, limit, found) ==
    IF files = <<>> THEN found
    ELSE GenreLoopStep(files, genre_query_lower, limit, found,
                       _extract_genre_from_file(Head(files)))

_search_by_genre(on_disk, genre_query, limit) ==
    GenreLoop(_get_audio_files(on_disk), Strip(ToLower(genre_query)), limit, <<>>)

\* the tool: it always replies "success"
search_by_genre(on_disk, genre, limit) ==
    [status |-> "success", matches |-> _search_by_genre(on_disk, genre, limit)]

-----------------------------------------------------------------------------
(* The tool calls *)

\* the filenames play_audio is called with
Filenames ==
    LibraryTracks \cup
    { <<"a.mp3">>,                      \* a bare name, also of a file in a subfolder
      <<"b.mp3">>,                      \* a bare name of one file at most
      <<"..", "music2", "x.mp3">>,      \* a sibling whose name starts with the root's
      <<"..", "etc", "x.mp3">>,         \* a file outside the root
      <<"..", "etc", "none.mp3">>,      \* no file, outside the root
      <<"/", "etc", "x.mp3">>,          \* an absolute path outside the root
      <<"/", "music", "a.mp3">>,        \* an absolute path inside the root
      <<"sub", "..", "a.mp3">> }        \* ".." that stays inside the root

VolumeArgs == {-1, 0, 10, 11}
SecondsArgs == {-1, 3}
\* what get_time() and get_length() may answer, in milliseconds
EngineTimes == {500}
EngineLengths == {0, 500, 2000}

\* the clock of the engine during a call: what get_time() and get_length()
\* answer. It is read only by a seek or skip that gets past its tests.
NoClock == [time |-> 0, length |-> 0]

ClockChoices(st) ==
    IF st.media_player = NoHandle \/ st.playing = NoTrack THEN {NoClock}
    ELSE {[time |-> t, length |-> length] : t \in EngineTimes, length \in EngineLengths}

\* the library may change between two scans of one call
FsAfter(files) ==
    {files} \cup {(files \ {t}) \cup ({t} \ files) : t \in LibraryTracks}

\* the ways the two attempts of init_vlc may end; they matter only while
\* there is no instance
InitChoices(st) ==
    IF st.vlc_instance # NoHandle THEN {<<"ok", "ok">>}
    ELSE {<<"ok", "ok">>} \cup ({"no_instance", "no_player"} \X InitOutcomes)

\* the ways load and play may end
PlayChoices == {<<FALSE, "Error">>} \cup ({TRUE} \X PlayOutcomes)

\* the outcomes that are exceptions, raised by the handler to the host;
\* every other outcome is the status of a reply
Raised ==
    {"NotFound", "PathEscape", "InitFailed", "LoadFailed", "PlaybackFailed",
     "InvalidArgument"}

\* a call the host has dispatched. pc: "pending" until the event loop
\* runs it, "waiting" while it is suspended in the wait of play_audio,
\* "done" when it has returned or raised; filename, index, cmds: the
\* local variables a suspended call goes on with
NoTask ==
    [op |-> "none", arg |-> NoTrack, pc |-> "none", status |-> "none",
     filename |-> NoTrack, index |-> -1, cmds |-> <<>>]

Calls == 1..MaxCalls

\* no call is running. The handlers run one at a time: they are
\* coroutines of one event loop that never suspend (play_audio waits with
\* time.sleep, and next_song awaits play_audio directly).
NoCall ==
    [op |-> "none", arg |-> NoTrack, n |-> 0, status |-> "none", cmds |-> <<>>,
     clock |-> NoClock, matches |-> <<>>, scored |-> 0, value |-> <<>>]

Idle == last = NoCall

CommitValue(r, op, arg, n, files2, clock, matches, value) ==
    /\ Idle
    /\ volume' = r.st.volume
    /\ playing' = r.st.playing
    /\ paused' = r.st.paused
    /\ playlist' = r.st.playlist
    /\ current_index' = r.st.current_index
    /\ vlc_instance' = r.st.vlc_instance
    /\ media_player' = r.st.media_player
    /\ engine' = r.st.engine
    /\ fs' = files2
    /\ last' = [op |-> op, arg |-> arg, n |-> n, status |-> r.status, cmds |-> r.cmds,
                clock |-> clock, matches |-> matches, scored |-> 0, value |-> value]
    /\ UNCHANGED tasks

CommitAt(r, op, arg, n, files2, clock) ==
    CommitValue(r, op, arg, n, files2, clock, <<>>, <<>>)

Commit(r, op, arg, n, files2) == CommitAt(r, op, arg, n, files2, NoClock)

PlayAudio ==
    \E filename \in Filenames, ic \in InitChoices(State), pc \in PlayChoices :
        Commit(play_audio(State, filename, fs, fs, ic[1], ic[2], pc[1], pc[2]),
               "play_audio", filename, 0, fs)

StopPlayback == Commit(stop_playback(State), "stop_playback", NoTrack, 0, fs)

PausePlayback == Commit(pause_playback(State), "pause_playback", NoTrack, 0, fs)

ResumePlayback ==
    \E outcome \in PlayOutcomes :
        Commit(resume_playback(State, outcome), "resume_playback", NoTrack, 0, fs)

NextSong ==
    \E files2 \in FsAfter(fs), ic \in InitChoices(State), pc \in PlayChoices :
        Commit(next_song(State, fs, files2, ic[1], ic[2], pc[1], pc[2]),
               "next_song", NoTrack, 0, files2)

PreviousSong ==
    \E files2 \in FsAfter(fs), ic \in InitChoices(State), pc \in PlayChoices :
        Commit(previous_song(State, fs, files2, ic[1], ic[2], pc[1], pc[2]),
               "previous_song", NoTrack, 0, files2)

SkipForward ==
    \E seconds \in SecondsArgs, clock \in ClockChoices(State) :
        CommitAt(skip_forward(State, seconds, clock.time, clock.length),
                 "skip_forward", NoTrack, seconds, fs, clock)

SkipBackward ==
    \E seconds \in SecondsArgs, clock \in ClockChoices(State) :
        CommitAt(skip_backward(State, seconds, clock.time),
                 "skip_backward", NoTrack, seconds, fs, clock)

SeekToPosition ==
    \E position_seconds \in SecondsArgs, clock \in ClockChoices(State) :
        CommitAt(seek_to_position(State, position_seconds, clock.length),
                 "seek_to_position", NoTrack, position_seconds, fs, clock)

GetPlaybackStatus ==
    Commit(get_playback_status(State, fs), "get_playback_status", NoTrack, 0, fs)

SetVolume ==
    \E v \in VolumeArgs : Commit(set_volume(State, v), "set_volume", NoTrack, v, fs)

DiagnoseAudioSystem ==
    \E vlc_available \in BOOLEAN, ic \in InitChoices(State) :
        Commit(diagnose_audio_system(State, vlc_available, ic[1], ic[2]),
               "diagnose_audio_system", NoTrack, 0, fs)

\* the library directory changes between two tool calls
FsChange ==
    /\ Idle
    /\ \E files2 \in FsAfter(fs) \ {fs} : fs' = files2
    /\ UNCHANGED <<volume, playing, paused, playlist, current_index,
                   vlc_instance, media_player, engine, last, tasks>>

\* the engine moves on by itself: the media opens or fails to, the track ends
EngineStep ==
    /\ Idle
    /\ media_player # NoHandle
    /\ \/ engine.state = "Opening" /\ engine' = [engine EXCEPT !.state = "Playing"]
       \/ engine.state = "Opening" /\ engine' = [engine EXCEPT !.state = "Error"]
       \/ engine.state = "Playing" /\ engine' = [engine EXCEPT !.state = "Ended"]
    /\ UNCHANGED <<volume, playing, paused, playlist, current_index,
                   vlc_instance, media_player, fs, last, tasks>>

\* the reply of the call is handed to the host
Return ==
    /\ ~Idle
    /\ last' = NoCall
    /\ UNCHANGED <<volume, playing, paused, playlist, current_index,
                   vlc_instance, media_player, engine, fs, tasks>>

Init ==
    /\ volume = InitialVolume
    /\ playing = NoTrack
    /\ paused = FALSE
    /\ playlist = <<>>
    /\ current_index = -1
    /\ vlc_instance = NoHandle
    /\ media_player = NoHandle
    /\ engine = NewEngine(0)
    /\ fs \in SUBSET LibraryTracks
    /\ last = NoCall
    /\ tasks = [i \in Calls |-> NoTask]

Next ==
    \/ PlayAudio
    \/ StopPlayback
    \/ PausePlayback
    \/ ResumePlayback
    \/ NextSong
    \/ PreviousSong
    \/ SkipForward
    \/ SkipBackward
    \/ SeekToPosition
    \/ GetPlaybackStatus
    \/ SetVolume
    \/ DiagnoseAudioSystem
    \/ FsChange
    \/ EngineStep
    \/ Return

Spec == Init /\ [][Next]_vars

-----------------------------------------------------------------------------
(* Searching the library. search_songs reads the library and nothing of    *)
(* the player, so it is looked at on its own, over every library of the    *)
(* tracks of LibraryOrder.                                                 *)

SearchLibrary ==
    {<<"sub", "a.mp3">>, <<"a.mp3">>, <<"b.mp3">>, <<"c.flac">>,
     <<"Hey_Jo.mp3">>, <<"x_ft_y.mp3">>}

\* the queries search_songs is called with
Queries ==
    { <<>>,                                 \* the empty query
      <<" ", " ">>,                         \* white space only
      <<"a">>,                              \* the cleaned stem of two files
      <<"c">>,                              \* the stem of a file with a title only
      <<"H", "e", "y", " ", "J", "o">>,     \* a cleaned stem, as the user types it
      <<"h", "e", "y", " ", "j", "o", " ">>,
      <<"j", "o", " ", "h", "e", "y">>,     \* the words of a stem in another order
      <<"x", " ", "f", "t", " ", "y">>,     \* a cleaned stem the normalizer rewrites
      <<"G", "o">>,                         \* a title
      <<"a", "l", " ", "-", " ", "g", "o">>,  \* artist - title
      <<"h", "e", "y">>,                    \* a title, and a part of a stem
      <<"a", "b">>,                         \* as much like the stem a as like b
      <<"a", "o", "g">>,                    \* as much like "Al - Go" as like the stem a
      <<"z", "z", "z">> }                   \* like nothing in the library

Limits == {-1, 0, 1, 2, 10}

SearchSongs ==
    /\ Idle
    /\ \E query \in Queries, limit \in Limits :
       \E r \in {search_songs(fs, query, limit)} :
           last' = [op |-> "search_songs", arg |-> query, n |-> limit,
                    status |-> r.status, cmds |-> <<>>, clock |-> NoClock,
                    matches |-> r.matches, scored |-> r.scored, value |-> <<>>]
    /\ UNCHANGED <<volume, playing, paused, playlist, current_index,
                   vlc_instance, media_player, engine, fs, tasks>>

SearchInit ==
    /\ volume = InitialVolume
    /\ playing = NoTrack
    /\ paused = FALSE
    /\ playlist = <<>>
    /\ current_index = -1
    /\ vlc_instance = NoHandle
    /\ media_player = NoHandle
    /\ engine = NewEngine(0)
    /\ fs \in SUBSET SearchLibrary
    /\ last = NoCall
    /\ tasks = [i \in Calls |-> NoTask]

SearchNext == SearchSongs \/ Return

SearchSpec == SearchInit /\ [][SearchNext]_vars

-----------------------------------------------------------------------------
(* Genres of the library. Like the search, the genre tools read the        *)
(* library and nothing of the player.                                      *)

\* the genres search_by_genre is called with
GenreQueries ==
    { <<>>,
      <<"r", "o", "c", "k">>,
      <<" ", "P", "O", "P", " ">>,
      <<"u", "n", "k", "n", "o", "w", "n">>,
      <<"h", "o", "p">>,
      <<"j", "a", "z", "z">> }

\* genre strings as tags hold them
RawGenres ==
    { <<>>,
      <<"(", "1", "3", ")", "P", "o", "p">>,
      <<"(", "R", "o", "c", "k", ")">>,
      <<"(", "1", "3", ")">>,
      <<"(", ")">>,
      <<"(", " ", ")">>,
      <<" ">>,
      <<" ", "p", "o", "p", " ", "R", "O", "C", "K">>,
      <<"h", "i", "p", "-", "h", "o", "p">>,
      <<"(", "1", "3", ")", "(", "r", "o", "c", "k", ")">>,
      <<"(", "1", "a", ")", "x">>,
      <<"(", "1", "3", ")", " ", "p", "o", "p">>,
      <<"t", "h", "e", " ", "8", "0", "'", "s">>,
      <<"(", "(", "x", ")", ")">> }

SearchByGenre ==
    /\ Idle
    /\ \E genre \in GenreQueries, limit \in Limits :
       \E r \in {search_by_genre(fs, genre, limit)} :
           last' = [op |-> "search_by_genre", arg |-> genre, n |-> limit,
                    status |-> r.status, cmds |-> <<>>, clock |-> NoClock,
                    matches |-> r.matches, scored |-> 0, value |-> <<>>]
    /\ UNCHANGED <<volume, playing, paused, playlist, current_index,
                   vlc_instance, media_player, engine, fs, tasks>>

\* the cleaning of one genre string
ExtractGenre ==
    /\ Idle
    /\ \E raw \in RawGenres :
           last' = [op |-> "_extract_genre_from_file", arg |-> raw, n |-> 0,
                    status |-> "none", cmds |-> <<>>, clock |-> NoClock,
                    matches |-> <<>>, scored |-> 0, value |-> CleanGenre(raw)]
    /\ UNCHANGED <<volume, playing, paused, playlist, current_index,
                   vlc_instance, media_player, engine, fs, tasks>>

GenreNext == SearchByGenre \/ ExtractGenre \/ Return

GenreSpec == SearchInit /\ [][GenreNext]_vars

-----------------------------------------------------------------------------
(* The normalizer on its own: texts of one or two words, the words taken   *)
(* from the terms it handles and from other words, with and without a      *)
(* separator between them.                                                 *)
Words ==
    { <<"f", "e", "a", "t">>,
      <<"F", "T">>,
      <<"f", "t">>,
      <<"w", "/">>,
      <<"v", "s">>,
      <<"f", "e", "a", "t", "u", "r", "i", "n", "g">>,
      <<"r", "e", "m", "i", "x">>,
      <<"e", "d", "i", "t">>,
      <<"m", "i", "x">>,
      <<"o", "r", "i", "g", "i", "n", "a", "l">>,
      <<"e", "x", "t", "e", "n", "d", "e", "d">>,
      <<"o", "f", "f", "i", "c", "i", "a", "l">>,
      <<"y", "o", "u">>,
      <<"l", "e", "f", "t">>,
      <<"F", "e", "a", "t", ".">>,
      <<"V", "S">> }

Separators == { <<" ">>, <<>>, <<"_">>, <<"/">> }

Texts ==
    {<<>>} \cup Words
           \cup {a \o sep \o b : a \in Words, sep \in Separators, b \in Words}

NormalizeMusicTerms ==
    /\ Idle
    /\ \E text \in Texts :
           last' = [op |-> "_normalize_music_terms", arg |-> text, n |-> 0,
                    status |-> "none", cmds |-> <<>>, clock |-> NoClock,
                    matches |-> <<>>, scored |-> 0,
                    value |-> _normalize_music_terms(text)]
    /\ UNCHANGED <<volume, playing, paused, playlist, current_index,
                   vlc_instance, media_player, engine, fs, tasks>>

NormalizeNext == NormalizeMusicTerms \/ Return

NormalizeSpec == Init /\ [][NormalizeNext]_vars

-----------------------------------------------------------------------------
(* What play_audio takes for a file: the library directory holds a file    *)
(* that is no audio file, and the arguments name it and a directory.       *)

\* the files the directory may hold: the tracks and a text file
FileLibrary == LibraryTracks \cup {<<"notes.txt">>}

FileArgs ==
    { <<"sub", "a.mp3">>,                \* a track
      <<"a.mp3">>,                       \* a track, by a bare name
      <<"notes.txt">>,                   \* the text file, by a bare name
      <<"/", "music", "notes.txt">>,     \* the text file, by an absolute path
      <<"sub", "..", "notes.txt">>,      \* the text file, by a relative path
      <<"/", "music", "sub">>,           \* a directory, by an absolute path
      <<"sub", "..", "sub">> }           \* a directory, by a relative path

PlayFile ==
    \E filename \in FileArgs, ic \in InitChoices(State), pc \in PlayChoices :
        Commit(play_audio(State, filename, fs, fs, ic[1], ic[2], pc[1], pc[2]),
               "play_audio", filename, 0, fs)

FileInit ==
    /\ volume = InitialVolume
    /\ playing = NoTrack
    /\ paused = FALSE
    /\ playlist = <<>>
    /\ current_index = -1
    /\ vlc_instance = NoHandle
    /\ media_player = NoHandle
    /\ engine = NewEngine(0)
    /\ fs \in SUBSET FileLibrary
    /\ last = NoCall
    /\ tasks = [i \in Calls |-> NoTask]

FileNext == PlayFile \/ Return

FileSpec == FileInit /\ [][FileNext]_vars

-----------------------------------------------------------------------------
(* Searching and playing, over libraries with two tracks of one name *)

PlayQueries ==
    {<<>>,
     <<" ">>,
     <<"a">>,
     <<"h", "e", "y">>,
     <<"a", "b">>,
     <<"z", "z", "z">>}

\* an untagged c.flac in a folder scanned before the tagged c.flac of the
\* root
PlayLibrary == {<<"sub", "a.mp3">>, <<"sub2", "c.flac">>, <<"c.flac">>}

\* one call of search_and_play; the match it was given is recorded with
\* the reply
SearchAndPlay ==
    \E query \in PlayQueries :
        \E search_result \in {search_songs(fs, query, 1)} :
            \E ic \in InitChoices(State), pc \in PlayChoices :
                CommitValue(search_and_play(State, search_result, fs, ic[1], ic[2],
                                            pc[1], pc[2]),
                            "search_and_play", query, 1, fs, NoClock,
                            search_result.matches, <<>>)

PlaySearchInit ==
    /\ volume = InitialVolume
    /\ playing = NoTrack
    /\ paused = FALSE
    /\ playlist = <<>>
    /\ current_index = -1
    /\ vlc_instance = NoHandle
    /\ media_player = NoHandle
    /\ engine = NewEngine(0)
    /\ fs \in SUBSET PlayLibrary
    /\ last = NoCall
    /\ tasks = [i \in Calls |-> NoTask]

PlaySearchNext == SearchAndPlay \/ Return

PlaySearchSpec == PlaySearchInit /\ [][PlaySearchNext]_vars

-----------------------------------------------------------------------------
(* The random song of an artist *)

\* the artists asked for
Artists ==
    {<<>>,
     <<"a", "l">>,
     <<"A", "L">>,
     <<"h", "e", "y">>,
     <<"z", "z", "z">>}

\* one call of play_random_song_by_artist; the matches it picks from and
\* its pick are recorded with the reply
PlayRandomSongByArtist ==
    \E artist \in Artists :
        \E available \in {available_songs(search_songs(fs, artist, 100), artist)} :
            \E pick \in 1..(IF available = <<>> THEN 1 ELSE Len(available)),
               ic \in InitChoices(State), pc \in PlayChoices :
                \E r \in {play_random_song_by_artist(State, available, pick, ic[1], ic[2],
                                                     pc[1], pc[2], fs)} :
                    CommitValue(r, "play_random_song_by_artist", artist, pick, fs,
                                NoClock, available, r.value)

ArtistNext == PlayRandomSongByArtist \/ Return

\* the tracks of the libraries the artists are looked for in: one without
\* tags, one with title and artist, one with a title only
ArtistLibrary == {<<"a.mp3">>, <<"b.mp3">>, <<"c.flac">>}

\* a library of these tracks, and the player as it is after construction
ArtistInit ==
    /\ volume = InitialVolume
    /\ playing = NoTrack
    /\ paused = FALSE
    /\ playlist = <<>>
    /\ current_index = -1
    /\ vlc_instance = NoHandle
    /\ media_player = NoHandle
    /\ engine = NewEngine(0)
    /\ fs \in SUBSET ArtistLibrary
    /\ last = NoCall
    /\ tasks = [i \in Calls |-> NoTask]

ArtistSpec == ArtistInit /\ [][ArtistNext]_vars

-----------------------------------------------------------------------------
(* The host. It dispatches tool calls as they arrive, without waiting for *)
(* the calls before them to end; each call is a task of one event loop    *)
(* (the FastMCP server started by mcp.run()). The loop runs one task at a  *)
(* time, and a task keeps the loop until it suspends or ends. Where a      *)
(* handler may suspend is read from its code: the lock of AudioState is    *)
(* never taken, so nothing else keeps two calls apart.                     *)

\* play_audio that waits with "await asyncio.sleep(0.5)"
grace_wait_yields == TRUE

\* whether the wait of play_audio hands the loop to other tasks:
\* time.sleep(0.5) blocks the thread of the loop. The play_audio that
\* next_song awaits is a coroutine run in place, so it suspends where
\* play_audio does.
grace_wait_suspends == FALSE

HostOps == {"play_audio", "next_song", "stop_playback", "pause_playback"}

\* a whole call, from its first line to its last
WholeCall(t, st, files, load_ok, outcome) ==
    CASE t.op = "play_audio" ->
           play_audio(st, t.arg, files, files, "ok", "ok", load_ok, outcome)
      [] t.op = "next_song" ->
           next_song(st, files, files, "ok", "ok", load_ok, outcome)
      [] t.op = "stop_playback" -> stop_playback(st)
      [] OTHER -> pause_playback(st)

\* a call of play_audio or next_song up to the wait of play_audio, for a
\* wait that suspends; filename and index are what the rest of the call
\* goes on with
StartOfCall(t, st, files, load_ok) ==
    IF t.op = "play_audio"
    THEN [r |-> play_audio_start(st, t.arg, files, "ok", "ok", load_ok),
          filename |-> t.arg, index |-> -1]
    ELSE
    LET s1 == _update_playlist(st, files) IN
    IF s1.playlist = <<>>
    THEN [r |-> Out(s1, "no_files", <<>>), filename |-> NoTrack, index |-> -1]
    ELSE
    LET next_index == IF s1.current_index = -1 THEN 0
                      ELSE (s1.current_index + 1) % Len(s1.playlist)
        next_filename == s1.playlist[next_index + 1]
    IN  [r |-> play_audio_start(s1, next_filename, files, "ok", "ok", load_ok),
         filename |-> next_filename, index |-> next_index]

\* the call from the end of the wait on
RestOfCall(t, st, files, outcome) ==
    LET r == play_audio_finish(st, t.filename, files, t.cmds, outcome) IN
    IF t.op = "next_song" /\ r.status = "playing"
    THEN Out([r.st EXCEPT !.current_index = t.index], "next_song", r.cmds)
    ELSE r

Done(t, r) ==
    [st |-> r.st, task |-> [t EXCEPT !.pc = "done", !.status = r.status, !.cmds = r.cmds]]

\* what the loop does with task t when it runs it: the state and the task
\* when the task gives the loop back
RunTask(t, st, files, load_ok, outcome) ==
    IF t.pc = "waiting" THEN Done(t, RestOfCall(t, st, files, outcome))
    ELSE IF ~grace_wait_suspends \/ t.op \notin {"play_audio", "next_song"}
    THEN Done(t, WholeCall(t, st, files, load_ok, outcome))
    ELSE
    LET b == StartOfCall(t, st, files, load_ok) IN
    IF b.r.status # "started" THEN Done(t, b.r)
    ELSE [st |-> b.r.st,
          task |-> [t EXCEPT !.pc = "waiting", !.filename = b.filename,
                             !.index = b.index, !.cmds = b.r.cmds]]

\* the host dispatches a call
Dispatch(i) ==
    /\ tasks[i].pc = "none"
    /\ \E op \in HostOps :
         \E arg \in (IF op = "play_audio" THEN LibraryTracks ELSE {NoTrack}) :
            tasks' = [tasks EXCEPT ![i] = [NoTask EXCEPT !.op = op, !.arg = arg,
                                                         !.pc = "pending"]]
    /\ UNCHANGED <<volume, playing, paused, playlist, current_index,
                   vlc_instance, media_player, engine, fs, last>>

\* the loop runs a task until the task gives the loop back
Run(i) ==
    /\ tasks[i].pc \in {"pending", "waiting"}
    /\ \E pc \in PlayChoices :
         LET x == RunTask(tasks[i], State, fs, pc[1], pc[2]) IN
         /\ volume' = x.st.volume
         /\ playing' = x.st.playing
         /\ paused' = x.st.paused
         /\ playlist' = x.st.playlist
         /\ current_index' = x.st.current_index
         /\ vlc_instance' = x.st.vlc_instance
         /\ media_player' = x.st.media_player
         /\ engine' = x.st.engine
         /\ tasks' = [tasks EXCEPT ![i] = x.task]
    /\ UNCHANGED <<fs, last>>

\* the reply of a call is handed to the host
Reply(i) ==
    /\ tasks[i].pc = "done"
    /\ tasks' = [tasks EXCEPT ![i] = NoTask]
    /\ UNCHANGED <<volume, playing, paused, playlist, current_index,
                   vlc_instance, media_player, engine, fs, last>>

HostInit == Init /\ fs = LibraryTracks

HostNext == \E i \in Calls : Dispatch(i) \/ Run(i) \/ Reply(i)

HostSpec == HostInit /\ [][HostNext]_vars

-----------------------------------------------------------------------------
(* What the claims speak of *)

\* PlaybackState: the fields of AudioState
PlaybackState ==
    <<volume, playing, paused, playlist, current_index, vlc_instance, media_player>>

STOPPED == playing = NoTrack
PLAYING == playing # NoTrack /\ ~paused
PAUSED  == playing # NoTrack /\ paused

\* the engine commands of the last call, by name
Issued(name) == \E i \in 1..Len(last.cmds) : last.cmds[i].cmd = name

\* the paths the last call loaded into the engine
LoadedPaths == {last.cmds[i].path : i \in {j \in 1..Len(last.cmds) : last.cmds[j].cmd = "load"}}

\* the errors a play may end in
PlayErrors == {"NotFound", "PathEscape", "LoadFailed", "PlaybackFailed"}

HasDotDot(filename) == \E i \in 1..Len(filename) : filename[i] = ".."

-----------------------------------------------------------------------------
(* C1: path containment. Whatever filename play_audio is given, it loads   *)
(* media into the engine only if the resolved path of the file lies inside *)
(* the library root, and a request whose resolved path lies outside the    *)
(* root (a sibling directory whose name starts with the root's name        *)
(* included) is rejected with nothing loaded.                              *)
C1_PathContainment ==
    /\ \A p \in LoadedPaths : Inside(p)
    /\ (/\ last.op = "play_audio"
        /\ LooksLikePath(last.arg)
        /\ ~Inside(Join(AUDIO_DIR, last.arg)))
       => (last.status # "playing" /\ LoadedPaths = {})

(* C2: a failed play leaves PlaybackState unchanged. Whenever play_audio   *)
(* ends in NotFound, PathEscape, a load failure or PlaybackFailed, every   *)
(* field of PlaybackState (volume, playing, paused, playlist,              *)
(* current_index, the engine handle) has the value it had before the call; *)
(* reached through next_song or previous_song, whose own refresh of        *)
(* playlist and current_index comes before the play, the other fields do.  *)
C2_FailedPlayLeavesState ==
    [][/\ (last'.op = "play_audio" /\ last'.status \in PlayErrors)
          => UNCHANGED PlaybackState
       /\ (last'.op \in {"next_song", "previous_song"} /\ last'.status \in PlayErrors)
          => UNCHANGED <<volume, playing, paused, vlc_instance, media_player>>]_vars

(* C3: for every filename containing ".." whose resolved path lies outside *)
(* the library root, whether or not a file exists at that path, play_audio *)
(* fails with PathEscape (not NotFound) and leaves PlaybackState unchanged.*)
C3_DotDotEscape ==
    [][(/\ last'.op = "play_audio"
        /\ HasDotDot(last'.arg)
        /\ ~Inside(Join(AUDIO_DIR, last'.arg)))
       => (last'.status = "PathEscape" /\ UNCHANGED PlaybackState)]_vars

(* C4: in every state reachable by any sequence of tool calls, failing     *)
(* ones included, paused implies that playing is not none.                 *)
C4_PausedImpliesPlaying == paused => playing # NoTrack

\* a pause took effect
C4_Witness == last.op = "pause_playback" /\ last.status = "paused" /\ paused

(* C5: in every reachable state, with the file system free to change       *)
(* between two scans, current_index is -1 when playing is none or not in   *)
(* playlist, and otherwise it is an index of playlist at which playing     *)
(* stands; it is never a value carried over from an earlier scan.          *)
C5_IndexOfPlaying ==
    IF playing = NoTrack \/ IndexOf(playing, playlist) = -1
    THEN current_index = -1
    ELSE /\ 0 <= current_index
         /\ current_index < Len(playlist)
         /\ playlist[current_index + 1] = playing

(* C6: a successful play_audio(track_ref), from any of STOPPED, PLAYING   *)
(* or PAUSED, ends in PLAYING with playing = track_ref, paused false, and  *)
(* playlist and current_index those of a new scan.                         *)
C6_PlayEndsPlaying ==
    (last.op = "play_audio" /\ last.status = "playing")
    => /\ PLAYING
       /\ playing = last.arg
       /\ paused = FALSE
       /\ playlist = _get_audio_files(fs)
       /\ current_index = IndexOf(last.arg, _get_audio_files(fs))

\* a play that took over from a track the engine was playing
C6_Witness ==
    last.op = "play_audio" /\ last.status = "playing" /\ Issued("stop") /\ PLAYING

(* C7: pause_playback moves PLAYING to PAUSED and keeps playing; called in *)
(* STOPPED or in PAUSED it changes no field of PlaybackState, gives the    *)
(* engine no pause command, does not raise, and its status tells STOPPED   *)
(* from already PAUSED.                                                    *)
C7_Pause ==
    [][last'.op = "pause_playback"
       => /\ PLAYING => (PAUSED' /\ playing' = playing)
          /\ (STOPPED \/ PAUSED)
             => /\ UNCHANGED PlaybackState
                /\ ~Issued("pause")'
                /\ last'.status \in {"not_initialized", "not_playing", "already_paused"}
          /\ STOPPED => last'.status # "already_paused"
          /\ PAUSED => last'.status = "already_paused"]_vars

\* a pause asked for while paused
C7_Witness ==
    last.op = "pause_playback" /\ last.status = "already_paused" /\ PAUSED

(* C8: resume_playback moves PAUSED to PLAYING and keeps playing; called   *)
(* in STOPPED or in PLAYING it changes no field of PlaybackState and gives *)
(* the engine no play command.                                             *)
C8_Resume ==
    [][last'.op = "resume_playback"
       => /\ PAUSED => (PLAYING' /\ playing' = playing /\ Issued("play")')
          /\ (STOPPED \/ PLAYING)
             => (UNCHANGED PlaybackState /\ ~Issued("play")')]_vars

\* a resume that took effect
C8_Witness == last.op = "resume_playback" /\ last.status = "resumed" /\ PLAYING

(* C9: stop_playback, called in STOPPED, PLAYING or PAUSED with the engine *)
(* initialized, gives the engine stop and ends in STOPPED: playing is none *)
(* and paused is false.                                                    *)
C9_Stop ==
    [][(last'.op = "stop_playback" /\ media_player # NoHandle)
       => /\ Issued("stop")'
          /\ engine'.state = "Stopped"
          /\ STOPPED'
          /\ paused' = FALSE
          /\ last'.status = "stopped"]_vars

\* a stop with the engine initialized
C9_Witness ==
    last.op = "stop_playback" /\ last.status = "stopped" /\ Issued("stop") /\ STOPPED

(* C10: soft failure without the engine. Each of stop_playback,            *)
(* pause_playback, resume_playback, seek_to_position, skip_forward and     *)
(* skip_backward, called while there is no engine handle, returns the      *)
(* status not_initialized without raising, leaves PlaybackState unchanged  *)
(* and does not create the handle.                                         *)
TransportOps ==
    {"stop_playback", "pause_playback", "resume_playback",
     "seek_to_position", "skip_forward", "skip_backward"}

C10_SoftFail ==
    [][(last'.op \in TransportOps /\ media_player = NoHandle)
       => /\ last'.status = "not_initialized"
          /\ last'.cmds = <<>>
          /\ UNCHANGED PlaybackState]_vars

\* a seek asked for before any engine exists
C10_Witness ==
    /\ last.op = "seek_to_position"
    /\ last.status = "not_initialized"
    /\ media_player = NoHandle

(* C11: set_volume(v) succeeds exactly when 0 <= v <= 10; for any other    *)
(* integer it fails with InvalidArgument and leaves volume as it was, so   *)
(* volume is within 0..10 after every step.                                *)
C11_VolumeRange ==
    [][/\ last'.op = "set_volume"
          => /\ (last'.status = "volume_changed") <=> (0 <= last'.n /\ last'.n <= 10)
             /\ last'.status = "volume_changed" => volume' = last'.n
             /\ last'.status # "volume_changed"
                => (last'.status = "InvalidArgument" /\ volume' = volume)
       /\ volume' \in 0..10]_vars

\* a volume outside the range was refused after another had been set
C11_Witness ==
    /\ last.op = "set_volume"
    /\ last.n = 11
    /\ last.status = "InvalidArgument"
    /\ volume = 10

-----------------------------------------------------------------------------
(* What next_song and previous_song start from: the scan of the library    *)
(* at the start of the call and the index of playing in it.                *)

FreshPlaylist == _get_audio_files(fs)

FreshIndex ==
    IF playing # NoTrack THEN IndexOf(playing, FreshPlaylist) ELSE -1

NextIndex ==
    IF FreshIndex = -1 THEN 0 ELSE (FreshIndex + 1) % Len(FreshPlaylist)

PrevIndex ==
    IF FreshIndex = -1 THEN Len(FreshPlaylist) - 1
    ELSE (FreshIndex - 1) % Len(FreshPlaylist)

NavigationOps == {"next_song", "previous_song"}

\* the step is a call of next_song or previous_song that went for the
\* track at index idx of the fresh playlist: nothing but the file of that
\* track is loaded, and on success it is loaded, playing names it and
\* current_index is idx
PlaysIndex(idx) ==
    LET track == FreshPlaylist[idx + 1] IN
    /\ LoadedPaths' \subseteq {AUDIO_DIR \o track}
    /\ last'.status \in NavigationOps
       => /\ LoadedPaths' = {AUDIO_DIR \o track}
          /\ playing' = track
          /\ current_index' = idx

(* C12: on a non-empty library next_song plays the track at index          *)
(* (current_index + 1) mod len(playlist) and previous_song the track at    *)
(* (current_index - 1) mod len(playlist), playlist and current_index being *)
(* those recomputed at the start of the call; from current_index -1 they   *)
(* play index 0 and the last index; on success current_index is the index  *)
(* of the track played.                                                    *)
C12_Navigation ==
    [][/\ (last'.op = "next_song" /\ FreshPlaylist # <<>>) => PlaysIndex(NextIndex)
       /\ (last'.op = "previous_song" /\ FreshPlaylist # <<>>) => PlaysIndex(PrevIndex)]_vars

(* next_song followed by previous_song on a library that does not change, *)
(* from the state as it is now: every way the pair may go. Between the two *)
(* calls the engine may have moved on by itself.                           *)
NextThenPrevious ==
    { [next |-> r1, previous |-> r2] :
        <<r1, r2>> \in
          UNION { UNION { { <<n, previous_song([n.st EXCEPT !.engine.state = es],
                                               fs, fs, "ok", "ok", pc2[1], pc2[2])>> :
                            pc2 \in PlayChoices }
                          : es \in {n.st.engine.state, "Playing", "Error", "Ended"} }
                  : n \in { next_song(State, fs, fs, ic[1], ic[2], pc1[1], pc1[2]) :
                              ic \in InitChoices(State), pc1 \in PlayChoices } } }

\* the pairs in which both calls played a track
BothPlayed ==
    { p \in NextThenPrevious :
        p.next.status = "next_song" /\ p.previous.status = "previous_song" }

(* C13 as stated: wraparound symmetry. For any non-empty playlist that     *)
(* does not change and any reachable PlaybackState, next_song followed by  *)
(* previous_song leaves current_index equal to its value before the        *)
(* next_song call.                                                         *)
C13_Symmetry ==
    (Idle /\ FreshPlaylist # <<>>)
    => \A p \in BothPlayed : p.previous.st.current_index = current_index

(* C13, amended: for any non-empty playlist that does not change and any   *)
(* reachable PlaybackState, next_song followed by previous_song, both      *)
(* playing a track, leaves current_index equal to the index that playing   *)
(* has in the playlist at the start of next_song, when playing is a track  *)
(* of the playlist; from a state where playing is none or not in the       *)
(* playlist (index -1) the pair ends at the last index.                    *)
C13_SymmetryFromTrack ==
    (Idle /\ FreshPlaylist # <<>>)
    => \A p \in BothPlayed :
         p.previous.st.current_index =
             IF FreshIndex # -1 THEN FreshIndex ELSE Len(FreshPlaylist) - 1

\* the pair wraps around twice: from the last of two tracks to the first
\* and back
C13_Witness ==
    /\ Idle
    /\ Len(FreshPlaylist) = 2
    /\ FreshIndex = 1
    /\ \E p \in BothPlayed :
         p.next.st.current_index = 0 /\ p.previous.st.current_index = 1

-----------------------------------------------------------------------------
(* Seeking *)

SeekOps == {"seek_to_position", "skip_forward", "skip_backward"}

\* the offset the last call passed to set_time
SetTimeOffset ==
    last.cmds[CHOOSE i \in 1..Len(last.cmds) : last.cmds[i].cmd = "set_time"].n

\* the offset the last call computed from its argument and the engine time
ComputedOffset ==
    CASE last.op = "seek_to_position" -> last.n * 1000
      [] last.op = "skip_forward" -> last.clock.time + last.n * 1000
      [] last.op = "skip_backward" -> last.clock.time - last.n * 1000

(* C15: for seek_to_position, skip_forward and skip_backward, with any     *)
(* integer argument and any engine time: whenever the engine reports a     *)
(* length greater than zero, the offset passed to set_time satisfies       *)
(* 0 <= offset <= length - 1000; when the length is not positive, the      *)
(* computed offset is passed through unclamped.                            *)
C15_OffsetClamp ==
    (last.op \in SeekOps /\ Issued("set_time"))
    => IF last.clock.length > 0
       THEN 0 <= SetTimeOffset /\ SetTimeOffset <= last.clock.length - 1000
       ELSE SetTimeOffset = ComputedOffset

(* C16: seek_to_position, skip_forward and skip_backward cause no state    *)
(* transition: they leave playing, paused, volume, playlist and            *)
(* current_index unchanged in every state, and called while playing is     *)
(* none, with the engine initialized, they return not_playing and give the *)
(* engine no set_time.                                                     *)
C16_SeekFrame ==
    [][last'.op \in SeekOps
       => /\ UNCHANGED <<playing, paused, volume, playlist, current_index>>
          /\ (playing = NoTrack /\ media_player # NoHandle)
             => (last'.status = "not_playing" /\ ~Issued("set_time")')]_vars

\* a skip backward asked for after a stop, and refused
C16_Witness ==
    /\ last.op = "skip_backward"
    /\ last.status = "not_playing"
    /\ media_player # NoHandle
    /\ playing = NoTrack
    /\ playlist # <<>>

-----------------------------------------------------------------------------
(* C17: persistence of the engine handle. Once the handle has been         *)
(* created it exists and is the same handle in every later state, whatever *)
(* tool calls follow, stop_playback and failed plays included; the         *)
(* initialization is not repeated: an engine that has been given media is  *)
(* never again the newly built one.                                        *)
C17_HandlePersists ==
    [][/\ vlc_instance # NoHandle => vlc_instance' = vlc_instance
       /\ media_player # NoHandle
          => /\ media_player' = media_player
             /\ engine.state # "NothingSpecial" => engine'.state # "NothingSpecial"]_vars

\* the handle of the fallback configuration, still there after a stop
C17_Witness ==
    /\ last.op = "stop_playback"
    /\ last.status = "stopped"
    /\ media_player = FallbackHandle
    /\ vlc_instance = FallbackHandle

-----------------------------------------------------------------------------
(* C18: mutual exclusion. With tool calls dispatched concurrently by the   *)
(* host, only one call at a time changes PlaybackState or commands the     *)
(* engine: a call that has started runs to its end in one piece (through   *)
(* the wait of play_audio and through the play_audio nested in next_song), *)
(* no call runs while another has started and not ended, and nothing but a *)
(* running call changes PlaybackState or the engine; so the calls take     *)
(* effect one after the other, in the order in which the loop runs them.   *)
Runs(i) == tasks[i].pc \in {"pending", "waiting"} /\ tasks'[i] # tasks[i]

-----------------------------------------------------------------------------
(* C19: search_songs with an empty or whitespace-only query and a limit    *)
(* N >= 0, on a library that is not empty, returns exactly                 *)
(* min(N, number of scanned files) results, in the order of the scan, each *)
(* with score 100 and match_type "all", and no file is given a score.      *)
Searched == last.op = "search_songs"

BlankQuery == Strip(last.arg) = <<>>

Scanned == _get_audio_files(fs)

C19_EmptyQuery ==
    (Searched /\ BlankQuery /\ last.n >= 0 /\ Scanned # <<>>)
    => /\ last.status = "success"
       /\ Len(last.matches) = (IF last.n < Len(Scanned) THEN last.n ELSE Len(Scanned))
       /\ \A k \in 1..Len(last.matches) :
              /\ last.matches[k].file = Scanned[k]
              /\ last.matches[k].score = 1000
              /\ last.matches[k].match_type = "all"
       /\ last.scored = 0

\* a whitespace query with limit 2 on a library of more than two files
C19_Witness ==
    /\ Searched
    /\ last.arg = <<" ", " ">>
    /\ last.n = 2
    /\ Len(Scanned) > 2
    /\ Len(last.matches) = 2

-----------------------------------------------------------------------------
(* C20: for every track without title and artist metadata, a search whose  *)
(* query is the cleaned filename stem of the track returns the track with  *)
(* a score of at least 95 and a match_type of the filename kind.           *)
NoMetadata(t) ==
    /\ _extract_title_and_artist(t).title = <<>>
    /\ _extract_title_and_artist(t).artist = <<>>

CleanedStem(t) == ReplaceChars(Stem(Chars(Name(t))), {"_", "-", "."}, " ")

\* the tracks the query of the call is the cleaned stem of
StemQueried ==
    {t \in fs : /\ \E k \in 1..Len(Scanned) : Scanned[k] = t
                /\ NoMetadata(t)
                /\ CleanedStem(t) = last.arg
                /\ Strip(last.arg) = last.arg
                /\ last.arg # <<>>}

FilenameKinds == {"filename", "filename_fuzzy"}

C20_ExactStemScore ==
    (Searched /\ last.n >= Len(Scanned))
    => \A t \in StemQueried :
           \E k \in 1..Len(last.matches) :
               /\ last.matches[k].file = t
               /\ last.matches[k].score >= 950
               /\ last.matches[k].match_type \in FilenameKinds

(* C20, as the code has it: the texts of a track without metadata all have *)
(* the filename weight 0.7, so for a track without metadata whose cleaned  *)
(* stem neither begins nor ends with a blank, a search for the cleaned     *)
(* stem with a limit of at least the number of scanned files returns the   *)
(* track with score 70 (100 * 0.7) and match_type "filename".              *)
C20_ExactStemWeighted ==
    (Searched /\ last.n >= Len(Scanned))
    => \A t \in StemQueried :
           \E k \in 1..Len(last.matches) :
               /\ last.matches[k].file = t
               /\ last.matches[k].score = 700
               /\ last.matches[k].match_type = "filename"

\* the search for "x ft y", the cleaned stem of x_ft_y.mp3, which the
\* normalizer rewrites
C20_Witness ==
    /\ Searched
    /\ last.n >= Len(Scanned)
    /\ <<"x_ft_y.mp3">> \in StemQueried
    /\ \E k \in 1..Len(last.matches) :
           last.matches[k].file = <<"x_ft_y.mp3">> /\ last.matches[k].score = 700

-----------------------------------------------------------------------------
(* C21: for every candidate the ranker returns, score is the maximum over  *)
(* the search texts of the candidate, match_text is the text that gave     *)
(* that maximum, and match_type is the kind of that same text, with the    *)
(* suffix _fuzzy exactly when the winning score came from the fuzzy        *)
(* comparison and not from an exact or substring match.                    *)
Ranked == Searched /\ ~BlankQuery

\* the score of search text i of a candidate for the query of the call
ScoreAt(data, query, i) ==
    TextScore(Strip(ToLower(query)), _preprocess_music_query(query),
              data.search_texts[i + 1], ToLower(data.search_texts[i + 1]),
              TextWeight(data, i))

\* the first text with the greatest score
WinningText(data, query) ==
    CHOOSE i \in 0..(Len(data.search_texts) - 1) :
        /\ \A j \in 0..(Len(data.search_texts) - 1) :
               ~ScoreGreater(ScoreAt(data, query, j), ScoreAt(data, query, i))
        /\ \A j \in 0..(i - 1) :
               ScoreGreater(ScoreAt(data, query, i), ScoreAt(data, query, j))

\* text i is neither equal to the query nor contains it
FuzzyAt(data, query, i) ==
    /\ Strip(ToLower(query)) # ToLower(data.search_texts[i + 1])
    /\ ~Contains(ToLower(data.search_texts[i + 1]), Strip(ToLower(query)))

WinningType(data, query, i) ==
    IF FuzzyAt(data, query, i) THEN Fuzzy(TextKind(data, i)) ELSE TextKind(data, i)

TaggedByWinner(m, data, query, i) ==
    /\ m.score = ScoreAt(data, query, i).tenths
    /\ m.matched_text = data.search_texts[i + 1]
    /\ m.match_type = WinningType(data, query, i)

C21_WinningMatch ==
    Ranked =>
        \A k \in 1..Len(last.matches) :
            \E data \in {_create_search_data_for_file(last.matches[k].file)} :
                TaggedByWinner(last.matches[k], data, last.arg,
                               WinningText(data, last.arg))

-----------------------------------------------------------------------------
(* C22: with title and artist both present each of the four metadata texts *)
(* has the weight 1.0; with one of them present the one metadata text has  *)
(* the weight 0.9; the three texts made from the filename have the weight  *)
(* 0.7 in all three cases. Seen in the reply: the score of a match is the  *)
(* greatest product of a text's comparison and that weight.                *)
HasBoth(data) == data.title # <<>> /\ data.artist # <<>>

HasOne(data) == (data.title # <<>>) # (data.artist # <<>>)

\* the weight the texts are said to have, in tenths
StatedWeight(data, i) ==
    IF HasBoth(data) THEN (IF i <= 3 THEN 10 ELSE 7)
    ELSE IF HasOne(data) THEN (IF i = 0 THEN 9 ELSE 7)
    ELSE 7

StatedScoreAt(data, query, i) ==
    TextScore(Strip(ToLower(query)), _preprocess_music_query(query),
              data.search_texts[i + 1], ToLower(data.search_texts[i + 1]),
              StatedWeight(data, i)).tenths

IsStatedMaximum(score, data, query) ==
    /\ \E i \in 0..(Len(data.search_texts) - 1) : StatedScoreAt(data, query, i) = score
    /\ \A i \in 0..(Len(data.search_texts) - 1) : StatedScoreAt(data, query, i) <= score

C22_StatedWeights ==
    Ranked =>
        \A k \in 1..Len(last.matches) :
            IsStatedMaximum(last.matches[k].score,
                            _create_search_data_for_file(last.matches[k].file),
                            last.arg)

-----------------------------------------------------------------------------
(* C23: for a query that is not empty, the result of the ranker holds only *)
(* candidates whose greatest score is at least 30, is sorted by score,     *)
(* greatest first, candidates of the same score in the order of the scan,  *)
(* and is the first `limit` entries of the whole sorted list (every        *)
(* candidate is scored before the cut), so it has at most `limit` entries. *)

\* the greatest score of every file of the library, for the query
BestScores(query) ==
    [f \in fs |->
        ScoreTexts(_create_search_data_for_file(f), Strip(ToLower(query)),
                   _preprocess_music_query(query), 0,
                   [max_score |-> ZeroScore, best_match_text |-> <<>>,
                    match_type |-> ""]).max_score]

ScanPosition(f) == CHOOSE k \in 1..Len(LibraryOrder) : LibraryOrder[k] = f

\* f comes before g in the whole sorted list
RankedBefore(best, f, g) ==
    \/ ScoreGreater(best[f], best[g])
    \/ best[f] = best[g] /\ ScanPosition(f) < ScanPosition(g)

Kept(best) ==
    {f \in fs : (\E k \in 1..Len(Scanned) : Scanned[k] = f) /\ ScoreAtLeast(best[f], 30)}

Returned == {last.matches[k].file : k \in 1..Len(last.matches)}

\* the matches are the first `count` entries of the sorted list of the
\* kept candidates
FirstOfSorted(best, count) ==
    /\ Returned \subseteq Kept(best)
    /\ Len(last.matches) = count
    /\ \A k, l \in 1..Len(last.matches) :
           k < l => RankedBefore(best, last.matches[k].file, last.matches[l].file)
    /\ \A f \in Kept(best) \ Returned :
           \A k \in 1..Len(last.matches) : RankedBefore(best, last.matches[k].file, f)

Least(a, b) == IF a < b THEN a ELSE b

C23_TopOfRanking ==
    Ranked =>
        \E best \in {BestScores(last.arg)} :
            /\ FirstOfSorted(best, Least(last.n, Cardinality(Kept(best))))
            /\ Len(last.matches) <= last.n

(* C23, with the limit the code needs: the above holds for a limit of 0 or *)
(* more. A negative limit is taken as a slice bound that counts from the   *)
(* end: the result is the sorted list without its last -limit entries, so  *)
(* it has more than `limit` entries.                                       *)
C23_TopOfRankingSliced ==
    Ranked =>
        \E best \in {BestScores(last.arg)} :
            IF last.n >= 0
            THEN /\ FirstOfSorted(best, Least(last.n, Cardinality(Kept(best))))
                 /\ Len(last.matches) <= last.n
            ELSE FirstOfSorted(best, IF Cardinality(Kept(best)) + last.n > 0
                                     THEN Cardinality(Kept(best)) + last.n ELSE 0)

\* the query "a" with limit 2 on a library with three candidates, two of
\* them with the same score: the one scanned first is kept, the other cut
C23_Witness ==
    /\ Ranked
    /\ last.arg = <<"a">>
    /\ last.n = 2
    /\ {<<"sub", "a.mp3">>, <<"a.mp3">>, <<"b.mp3">>} \subseteq fs
    /\ Len(last.matches) = 2
    /\ last.matches[1].file = <<"b.mp3">>
    /\ last.matches[2].file = <<"sub", "a.mp3">>

-----------------------------------------------------------------------------
(* C24: metadata priority. For a query that neither equals nor is held in  *)
(* a search text, a candidate with title and artist whose best fuzzy ratio *)
(* is r (with 0.7 * r >= 30) is ranked above a candidate without metadata  *)
(* whose best fuzzy ratio is the same r, and both are returned.            *)
RatioAt(data, query, i) ==
    token_sort_ratio(_preprocess_music_query(query), data.search_texts[i + 1])

BestRatio(data, query) ==
    CHOOSE r \in 0..100 :
        /\ \E i \in 0..(Len(data.search_texts) - 1) : RatioAt(data, query, i) = r
        /\ \A i \in 0..(Len(data.search_texts) - 1) : RatioAt(data, query, i) <= r

AllFuzzy(data, query) ==
    \A i \in 0..(Len(data.search_texts) - 1) : FuzzyAt(data, query, i)

\* the best ratio of the candidate is that of one of its metadata texts
BestOnMetadata(data, query) ==
    \E i \in 0..3 : RatioAt(data, query, i) = BestRatio(data, query)

\* a candidate with title and artist and one without, equally like the query
EquallyAlike(tagged, plain, query) ==
    /\ HasBoth(tagged)
    /\ ~HasBoth(plain) /\ ~HasOne(plain)
    /\ AllFuzzy(tagged, query)
    /\ AllFuzzy(plain, query)
    /\ BestRatio(tagged, query) = BestRatio(plain, query)
    /\ 7 * BestRatio(plain, query) >= 300

RankedAbove(f, g) ==
    \E k, l \in 1..Len(last.matches) :
        k < l /\ last.matches[k].file = f /\ last.matches[l].file = g

ScannedData == {_create_search_data_for_file(Scanned[k]) : k \in 1..Len(Scanned)}

-----------------------------------------------------------------------------
(* C25: search_by_genre(query, limit) returns the first min(limit, m)      *)
(* tracks, in the order of the scan, whose genre equals or contains the    *)
(* query whatever the case, m being the number of such tracks; it stops    *)
(* scanning once `limit` results are collected and never returns more than *)
(* `limit` results, for every limit >= 0.                                  *)
GenreSearched == last.op = "search_by_genre"

GenreMatches(file_path, genre) ==
    Contains(ToLower(_extract_genre_from_file(file_path)), Strip(ToLower(genre)))

\* the tracks of the wanted genre, in the order of the scan
OfGenre(genre) == SelectSeq(Scanned, LAMBDA f : GenreMatches(f, genre))

C25_GenreLimit ==
    (GenreSearched /\ last.n >= 0) =>
        /\ Len(last.matches) = Least(last.n, Len(OfGenre(last.arg)))
        /\ \A k \in 1..Len(last.matches) :
               last.matches[k].file = OfGenre(last.arg)[k]
        /\ Len(last.matches) <= last.n

-----------------------------------------------------------------------------
(* C28: genre cleaning takes a leading numeric code in parentheses away,   *)
(* then the parentheses around the rest, then title-cases what is left,    *)
(* and gives "Unknown" when nothing is left: "(13)Pop" gives "Pop",        *)
(* "(Rock)" gives "Rock", "" and "(13)" give "Unknown"; the genre returned *)
(* is never the empty string.                                              *)
GenreCleaned == last.op = "_extract_genre_from_file"

C28_GenreCleaning ==
    GenreCleaned =>
        /\ last.value # <<>>
        /\ last.value = Unknown \/ last.value = Title(last.value)
        /\ last.arg = <<"(", "1", "3", ")", "P", "o", "p">> => last.value = <<"P", "o", "p">>
        /\ last.arg = <<"(", "R", "o", "c", "k", ")">> => last.value = <<"R", "o", "c", "k">>
        /\ last.arg = <<>> => last.value = Unknown
        /\ last.arg = <<"(", "1", "3", ")">> => last.value = Unknown
        /\ last.arg = <<"(", ")">> => last.value = Unknown

\* a genre with a numeric code before a name in parentheses, in lower case
C28_Witness ==
    /\ GenreCleaned
    /\ last.arg = <<"(", "1", "3", ")", "(", "r", "o", "c", "k", ")">>
    /\ last.value = <<"R", "o", "c", "k">>

-----------------------------------------------------------------------------
(* C27: the normalizer of music terms turns the word feat and the word FT  *)
(* (in any case) into featuring, and normalizing twice gives what          *)
(* normalizing once gives, for every text made of the handled terms and    *)
(* ordinary words.                                                         *)
Normalized == last.op = "_normalize_music_terms"

Featuring == <<"f", "e", "a", "t", "u", "r", "i", "n", "g">>

C27_NormalizerIdempotent ==
    Normalized =>
        /\ _normalize_music_terms(last.value) = last.value
        /\ ToLower(last.arg) \in {<<"f", "e", "a", "t">>, <<"f", "t">>}
           => last.value = Featuring

\* a text the normalizer rewrites in two places
C27_Witness ==
    /\ Normalized
    /\ last.arg = <<"w", "/", "F", "T">>
    /\ last.value = <<"w", "i", "t", "h">> \o Featuring


-----------------------------------------------------------------------------
(* C26: the reply of play_random_song_by_artist *)

ArtistPlayed == last.op = "play_random_song_by_artist"

\* the call picked a song and the engine was told to play it
SongPlayed == ArtistPlayed /\ last.matches # <<>> /\ Issued("play")

\* selected_from and match_score are in the reply
HasArtistInfo ==
    /\ Len(last.value) = 2
    /\ last.value[1] = Len(last.matches)
    /\ last.value[2] = last.matches[last.n].score

\* C26: a call of play_random_song_by_artist that does not raise replies
\* "success" with selected_from and match_score when it picked a song and
\* played it, "no_matches" when no song matched, and nothing else.
C26_ArtistReply ==
    (ArtistPlayed /\ last.status \notin Raised) =>
        /\ last.status \in {"success", "no_matches"}
        /\ last.matches = <<>> => last.status = "no_matches"
        /\ SongPlayed => last.status = "success" /\ HasArtistInfo

-----------------------------------------------------------------------------
(* C29: the engine commands of a play over a loaded track *)

\* the names of engine commands, in the order they were issued
CmdNames(cmds) == [i \in 1..Len(cmds) |-> cmds[i].cmd]

\* the step is a call of play_audio that passed validation (the file was
\* found inside AUDIO_DIR and the engine is there) while a track was loaded
PlayOverLoaded ==
    /\ Idle
    /\ playing # NoTrack
    /\ last'.op = "play_audio"
    /\ last'.status \notin {"NotFound", "PathEscape", "InitFailed"}

\* C29: a play_audio call that passes validation while a track is loaded,
\* playing or paused, has the engine stop the old track before the new
\* media is loaded, and then load, set the volume and play, in that order
\* and once each; if the load fails nothing follows the stop.
C29_StopBeforeLoad ==
    [][PlayOverLoaded =>
          CmdNames(last'.cmds) = IF last'.status = "LoadFailed" THEN <<"stop">>
                                 ELSE <<"stop", "load", "set_volume", "play">>]_vars

-----------------------------------------------------------------------------
(* C30: the file a bare filename stands for *)

\* the scanned tracks whose basename is the bare filename
TracksNamed(filename) == {t \in fs : Name(t) = filename[1]}

\* the one of them the scan meets first
FirstNamed(filename) ==
    CHOOSE t \in TracksNamed(filename) :
        \A u \in TracksNamed(filename) :
            IndexOf(t, _get_audio_files(fs)) <= IndexOf(u, _get_audio_files(fs))

\* the paths loaded into the engine by these commands
PathsLoaded(cmds) == {cmds[i].path : i \in {j \in 1..Len(cmds) : cmds[j].cmd = "load"}}

\* the step is a call of play_audio with a bare filename
PlayBareName == Idle /\ last'.op = "play_audio" /\ ~LooksLikePath(last'.arg)

\* C30: given a filename without path separator that is not absolute,
\* play_audio loads nothing but the first track in scan order with that
\* basename, and loads it whenever it plays; if no scanned track has that
\* basename it fails with NotFound, issues no engine command and changes
\* no state.
C30_BareFilename ==
    [][PlayBareName =>
          IF TracksNamed(last'.arg) = {}
          THEN /\ last'.status = "NotFound"
               /\ last'.cmds = <<>>
               /\ UNCHANGED <<volume, playing, paused, playlist, current_index,
                              vlc_instance, media_player, engine, fs>>
          ELSE /\ last'.status # "NotFound"
               /\ PathsLoaded(last'.cmds) \subseteq {AUDIO_DIR \o FirstNamed(last'.arg)}
               /\ last'.status = "playing" => PathsLoaded(last'.cmds) # {}]_vars

\* a bare filename that two scanned tracks have was played
C30_Witness ==
    /\ last.op = "play_audio"
    /\ ~LooksLikePath(last.arg)
    /\ Cardinality(TracksNamed(last.arg)) = 2
    /\ last.status = "playing"
    /\ PathsLoaded(last.cmds) = {AUDIO_DIR \o <<"sub", "a.mp3">>}

-----------------------------------------------------------------------------
(* C31: the volume of the engine *)

\* C31: whenever the media player exists, its volume is ten times the
\* volume of AudioState, between any two tool calls.
C31_VolumeMapping ==
    media_player # NoHandle => engine.volume = volume * VolumeScale

\* the volume was changed with the media player there
C31_Witness ==
    /\ last.op = "set_volume"
    /\ last.status = "volume_changed"
    /\ media_player # NoHandle
    /\ volume # InitialVolume
    /\ engine.volume = volume * VolumeScale

-----------------------------------------------------------------------------
(* C32: when the engine is built *)

\* the step builds an engine handle where there was none
EngineCreated ==
    /\ vlc_instance = NoHandle /\ media_player = NoHandle
    /\ vlc_instance' # NoHandle \/ media_player' # NoHandle

\* the playback requests among the tool calls of the player
PlaybackRequests ==
    {"play_audio", "next_song", "previous_song", "search_and_play",
     "play_random_song_by_artist", "play_random_from_genre"}

\* there is no engine handle
NoEngine == vlc_instance = NoHandle /\ media_player = NoHandle

\* C32: there is no engine handle after construction, and only a playback
\* request builds one: no other tool call takes the player from no handle
\* to a handle.
C32_LazyCreation ==
    NoEngine /\ [][EngineCreated => last'.op \in PlaybackRequests]_vars

\* C32, as the code has it: there is no engine handle after construction,
\* and only a playback request or diagnose_audio_system builds one.
C32_LazyCreationOrDiagnosis ==
    NoEngine /\ [][EngineCreated =>
          last'.op \in PlaybackRequests \cup {"diagnose_audio_system"}]_vars

\* the engine was built by the diagnosis: it is there and was never
\* given a track
C32_Witness ==
    /\ last.op = "diagnose_audio_system"
    /\ vlc_instance # NoHandle /\ media_player # NoHandle
    /\ engine.state = "NothingSpecial"
    /\ playing = NoTrack

-----------------------------------------------------------------------------
(* C33: a rejected file does not reach the engine *)

\* the step is a call of play_audio rejected for its file
PlayRejected ==
    Idle /\ last'.op = "play_audio" /\ last'.status \in {"NotFound", "PathEscape"}

\* C33: a play_audio call that ends in NotFound or PathEscape gives the
\* engine no command, builds no engine handle and leaves the player and the
\* engine as they were, so a track that was playing goes on playing.
C33_ValidationFirst ==
    [][PlayRejected =>
          /\ last'.cmds = <<>>
          /\ UNCHANGED <<vlc_instance, media_player, engine, playing, paused,
                         volume, playlist, current_index>>]_vars

\* a file outside the root was rejected while a track was playing
C33_Witness ==
    /\ last.op = "play_audio"
    /\ last.status = "PathEscape"
    /\ playing # NoTrack /\ ~paused
    /\ is_playing(engine)

-----------------------------------------------------------------------------
(* C34: the index of the file that was played *)

\* play_audio has just started a track
PlayStarted == last.op = "play_audio" /\ last.status = "playing"

\* the scanned tracks the last call loaded into the engine
TracksLoaded ==
    {t \in fs : \E i \in 1..Len(last.cmds) :
                    /\ last.cmds[i].cmd = "load"
                    /\ Resolve(last.cmds[i].path) = AUDIO_DIR \o t}

\* C34: after a successful play_audio of a file of the library scan,
\* whether it was named by a bare filename, a relative path or an absolute
\* path inside the root, playlist is the scan and current_index is the
\* position of that file in it, which is what makes a following next_song
\* go to the successor of the file instead of the first file.
C34_IndexOfLoaded ==
    PlayStarted =>
        \A t \in TracksLoaded :
            /\ playlist = _get_audio_files(fs)
            /\ current_index = IndexOf(t, playlist)

-----------------------------------------------------------------------------
(* C35: the two handles of the engine *)

\* C35: the engine instance and the media player are both absent or both
\* present in every state, also after an initialisation that raised
\* part-way, so that a later playback request initialises again instead of
\* meeting half an engine.
C35_HandlesTogether ==
    (vlc_instance = NoHandle) <=> (media_player = NoHandle)

-----------------------------------------------------------------------------
(* C36: what is loaded is a scanned track *)

\* the files of the library scan, as absolute paths
ScannedPaths ==
    {AUDIO_DIR \o _get_audio_files(fs)[i] : i \in 1..Len(_get_audio_files(fs))}

\* C36: every file play_audio loads into the engine is a file of the
\* library scan of that moment, a regular file with a supported audio
\* extension under the root; a path that names a directory or a file with
\* another extension inside the root is rejected and not loaded.
C36_LoadsScannedFiles ==
    last.op = "play_audio" =>
        \A i \in 1..Len(last.cmds) :
            last.cmds[i].cmd = "load" => Resolve(last.cmds[i].path) \in ScannedPaths

-----------------------------------------------------------------------------
(* C37: the status that is reported *)

\* the step is a call of get_playback_status
StatusAsked == Idle /\ last'.op = "get_playback_status"

\* C37: get_playback_status reports "stopped" exactly when playing is
\* none, "paused" exactly when paused is true and "playing" exactly when
\* playing is set and paused is false, whatever the engine has done by
\* itself; the call changes nothing but playlist and current_index.
C37_StatusOfState ==
    [][StatusAsked =>
          /\ last'.status = "stopped" <=> playing = NoTrack
          /\ last'.status = "paused" <=> paused
          /\ last'.status = "playing" <=> (playing # NoTrack /\ ~paused)
          /\ UNCHANGED <<volume, playing, paused, vlc_instance, media_player,
                         engine, fs>>]_vars

-----------------------------------------------------------------------------
(* C38: what search_and_play plays *)

\* the step is a call of search_and_play
SearchPlayed == Idle /\ last'.op = "search_and_play"

\* the call was given a ranked match: a candidate of the fuzzy ranking, of
\* score 30 or more
HasRanked(call) ==
    /\ call.matches # <<>>
    /\ call.matches[1].match_type # "all"
    /\ call.matches[1].score >= 300

\* every file the call loaded is the file of its first match
LoadsFirstMatch(call) ==
    \A i \in 1..Len(call.cmds) :
        call.cmds[i].cmd = "load" =>
            /\ call.matches # <<>>
            /\ Resolve(call.cmds[i].path) = AUDIO_DIR \o call.matches[1].file

\* the call did nothing
NothingPlayed ==
    /\ last'.status = "no_matches"
    /\ last'.cmds = <<>>
    /\ UNCHANGED <<volume, playing, paused, playlist, current_index,
                   vlc_instance, media_player, engine>>

\* C38: search_and_play starts no track but the top-ranked result of the
\* fuzzy ranking of the query, of score 30 or more; for every other query
\* (no candidate reaches the floor, empty library, empty or blank query) it
\* returns no_matches, gives the engine no command and leaves the player
\* as it was.
C38_PlaysTopRanked ==
    [][SearchPlayed =>
          /\ LoadsFirstMatch(last')
          /\ IF HasRanked(last') THEN last'.status # "no_matches"
             ELSE NothingPlayed]_vars

=============================================================================
